---- MODULE Spec2Model ----
(***************************************************************************)
(* Conversation orchestration core of the chat service: the connection     *)
(* registry (ConnectionManager), the per-connection session loop           *)
(* (WebSocketHandler.handle_connection), the orchestrator                   *)
(* (OpenAIConversationService.send_message) and tool discovery/invocation  *)
(* (MCPToolsService).  One action is one run of the code between two       *)
(* suspension points (awaits on the network) of a connection's task.       *)
(***************************************************************************)
EXTENDS Integers, Sequences, FiniteSets, TLC

\* ---------------------------------------------------------------- bounds
NumConns == 2
MaxFrames == 2
TurnFrames == 2
ToolFrames == 1
HistFrames == 2
MaxConvs == 2
MaxClock == 1
HistSlack == 1
CredFrames == 2
LifeFrames == 3
EndFrames == 3
FrameBound == 3
MaxRecent == 2
NumWorkers == 2
TrackBound == 3
SessFrames == 3
AttachFrames == 2

\* ------------------------------------------------------ program constants
\* default of the limit parameter of get_conversation_messages
DefaultLimit == 100

Conns == 1 .. NumConns
ConvIds == 1 .. MaxConvs
None == "None"
Usernames == {"alice", "bob"}
ServerIds == {1, 2}
Contents == {"hi"}

\* users table: username -> database id (user_crud.get_user_by_username)
UserDbId(username) ==
    IF username = "alice" THEN "ua" ELSE IF username = "bob" THEN "ub" ELSE None

\* the values ConnectionManager.connect is given as user_id: the user name of the
\* path of /ws/chat/{user_id}, or the id of the user's row from /ws/{conversation_id}
UserKeys == Usernames \cup {UserDbId(u) : u \in Usernames}

\* tools/list manifest a provider answers with when its listing succeeds
ServerTools(s) == IF s = 1 THEN <<"get_time">> ELSE <<"get_time", "convert">>

VARIABLES
    conversations,            \* conversations table: id -> row (exists = FALSE: no row)
    messages,                 \* chat_messages table in insertion (rowid) order
    clock,                    \* database clock behind server_default=func.now()
    mcp_servers,              \* mcp_servers table: id -> row
    active_connections,       \* ConnectionManager.active_connections
    user_connections,         \* ConnectionManager.user_connections (<<>>: key absent)
    conversation_connections, \* ConnectionManager.conversation_connections
    sess,                     \* per connection: transport state, user_id, token
    pc,                       \* per connection: where its task is suspended
    turn,                     \* per connection: locals of the frame being handled
    nread,                    \* per connection: frames returned by receive_text
    outbox,                   \* per connection: frames written to the client
    budget,                   \* requests the clients send in this behaviour
    http,                     \* the last answer of a reconnect request, n = how many
    analytics                 \* analytics service: metrics tables and its workers

vars == <<conversations, messages, clock, mcp_servers, active_connections,
          user_connections, conversation_connections, sess, pc, turn, nread, outbox,
          budget, http, analytics>>

dbVars == <<conversations, messages, clock, mcp_servers>>
registryVars == <<active_connections, user_connections, conversation_connections>>

\* ------------------------------------------------------------- helpers
RECURSIVE SeqRemoveFirst(_, _)
\* list.remove(x): drops the first occurrence of x
SeqRemoveFirst(s, x) ==
    IF s = <<>> THEN <<>>
    ELSE IF Head(s) = x THEN Tail(s)
    ELSE <<Head(s)>> \o SeqRemoveFirst(Tail(s), x)

InSeq(x, s) == \E i \in 1 .. Len(s) : s[i] = x

Range(s) == {s[i] : i \in 1 .. Len(s)}

\* a NULL message_metadata column, and the metadata dictionaries send_message builds
NullMeta == [null |-> TRUE, mcp_tool_used |-> "unset", tool_name |-> None, server_id |-> 0,
             finish_reason |-> None]
EmptyMeta == [NullMeta EXCEPT !.null = FALSE]
ToolMeta(tool_name, server_id) ==
    [EmptyMeta EXCEPT !.mcp_tool_used = "true", !.tool_name = tool_name,
                      !.server_id = server_id]
NoToolMeta == [EmptyMeta EXCEPT !.mcp_tool_used = "false"]

\* no tool result yet
NoResult == [null |-> TRUE]

\* no data in a response frame
NoData == [status |-> None, ended_at |-> 0 - 1]

\* no reconnect request answered yet
NoResponse == [route |-> None, conversation_id |-> 0, was |-> None, status_code |-> 0,
               status |-> None, messages |-> 0, n |-> 0]

\* the frame of a turn when it named its operation under another key than type
NoFrame == [key |-> None, name |-> None]

\* locals of the handler of one frame; calls lists the model calls of the turn,
\* requests the JSON-RPC requests sent to tool providers, listed the providers
\* whose tools/list was answered with tools, data the data of the response frame
NoTurn == [kind |-> "none", conv |-> 0, n |-> 0, user_message |-> 0, ai_message |-> 0,
           requests |-> <<>>, listed |-> {}, data |-> NoData,
           history_upto |-> 0, servers |-> <<>>, openai_functions |-> <<>>,
           tool_map |-> <<>>, function_name |-> None, args_ok |-> TRUE,
           tool_result |-> NoResult, response_content |-> None,
           response_metadata |-> EmptyMeta, calls |-> <<>>, tool_calls |-> 0,
           svc |-> "none", error |-> None, frame |-> NoFrame]

\* ------------------------------------------------------------ database
\* a NULL ended_at
NullTime == 0 - 1

NoConversation == [exists |-> FALSE, status |-> None, user_id |-> None, ended_at |-> NullTime]

\* generate_conversation_hash: a fresh id; ids are handed out in creation order
NextConvId == Cardinality({k \in ConvIds : conversations[k].exists}) + 1

\* crud.get_conversation
get_conversation(conversation_id) ==
    IF conversation_id \in ConvIds /\ conversations[conversation_id].exists
    THEN conversations[conversation_id] ELSE NoConversation

\* fields declared by schemas.ChatMessageCreate; pydantic ignores other keywords
ChatMessageFields == {"conversation_id", "role", "content", "message_metadata"}

ChatMessageCreate(kwargs) ==
    [f \in ChatMessageFields |->
        IF f \in DOMAIN kwargs THEN kwargs[f]
        ELSE IF f = "message_metadata" THEN NullMeta ELSE None]

\* crud.create_message: the row appended for a ChatMessageCreate; the timestamp
\* is the database clock; conn/n record which turn of which connection wrote it
NewMessageRow(message, c, n) ==
    [conversation_id |-> message.conversation_id, role |-> message.role,
     content |-> message.content, timestamp |-> clock,
     message_metadata |-> message.message_metadata, conn |-> c, n |-> n]

ConvMessageIds(msgs, conversation_id) ==
    {i \in 1 .. Len(msgs) : msgs[i].conversation_id = conversation_id}


RECURSIVE Perms(_)
\* every order in which the rows of one tie group may be returned
Perms(S) ==
    IF S = {} THEN {<<>>}
    ELSE UNION {{<<x>> \o p : p \in Perms(S \ {x})} : x \in S}

RECURSIVE OrderByTimestamp(_, _, _)
\* ORDER BY timestamp ASC over the rows ids: rows with equal timestamps have no
\* tie-breaker in the query, so the database may return them in any order
OrderByTimestamp(msgs, ids, t) ==
    IF {i \in ids : msgs[i].timestamp >= t} = {} THEN {<<>>}
    ELSE {p \o r : p \in Perms({i \in ids : msgs[i].timestamp = t}),
                   r \in OrderByTimestamp(msgs, ids, t + 1)}

Min(a, b) == IF a <= b THEN a ELSE b

\* the smallest timestamp among the rows ids (0 when there is none)
MinTimestamp(msgs, ids) ==
    IF ids = {} THEN 0
    ELSE msgs[CHOOSE i \in ids : \A j \in ids : msgs[i].timestamp <= msgs[j].timestamp].timestamp

\* crud.get_conversation_messages(db, conversation_id, skip, limit): the possible
\* results, as lists of row numbers
get_conversation_messages(msgs, conversation_id, skip, limit) ==
    {SubSeq(s, skip + 1, Min(Len(s), skip + limit)) :
        s \in OrderByTimestamp(msgs, ConvMessageIds(msgs, conversation_id),
                               MinTimestamp(msgs, ConvMessageIds(msgs, conversation_id)))}

Reverse(s) == [i \in 1 .. Len(s) |-> s[Len(s) + 1 - i]]

\* crud.get_recent_messages(db, conversation_id, limit): ORDER BY timestamp DESC
\* LIMIT limit, then reverse(); the possible results, as lists of row numbers.
\* A descending order is an ascending one read backwards, ties in any order
get_recent_messages(msgs, conversation_id, limit) ==
    {Reverse(SubSeq(Reverse(s), 1, Min(Len(s), limit))) :
        s \in OrderByTimestamp(msgs, ConvMessageIds(msgs, conversation_id),
                               MinTimestamp(msgs, ConvMessageIds(msgs, conversation_id)))}

RECURSIVE ServersUpToAnyFlag(_, _)
\* a query that would leave out the filter on is_active
ServersUpToAnyFlag(user_id, k) ==
    IF k = 0 THEN <<>>
    ELSE ServersUpToAnyFlag(user_id, k - 1) \o
         (IF k \in ServerIds /\ mcp_servers[k].exists /\ mcp_servers[k].user_id = user_id
          THEN <<k>> ELSE <<>>)

\* mcp_server_crud.get_user_mcp_servers(db, user_id, active_only=True), in id order
RECURSIVE ServersUpTo(_, _)
ServersUpTo(user_id, k) ==
    IF k = 0 THEN <<>>
    ELSE ServersUpTo(user_id, k - 1) \o
         (IF k \in ServerIds /\ mcp_servers[k].exists /\ mcp_servers[k].user_id = user_id
             /\ mcp_servers[k].is_active
          THEN <<k>> ELSE <<>>)

get_user_mcp_servers(user_id) == ServersUpTo(user_id, Cardinality(ServerIds))

\* ----------------------------------------------------------- analytics
\* processes of the analytics service on one database
Workers == 1 .. NumWorkers

\* MessageTrackingRequest.token_count
TokenCounts == {0, 1, 2}

\* a worker between requests
IdleWorker == [pc |-> "idle", token_count |-> 0, current_message_count |-> 0,
               current_total_tokens |-> 0]

\* metrics is the conversation_metrics row of conversation 1; message_metrics
\* lists the token counts of the rows tracked for it; workers holds the locals of
\* each worker's request; handled the workers that took a request
NoAnalytics == [metrics |-> [exists |-> FALSE, message_count |-> 0, total_tokens |-> 0],
                message_metrics |-> <<>>,
                workers |-> [w \in Workers |-> IdleWorker],
                handled |-> {}]

\* requests taken by the analytics service so far
Tracked ==
    Len(analytics.message_metrics)
        + Cardinality({w \in Workers : analytics.workers[w].pc # "idle"})

\* ------------------------------------------------------------ registry
\* ConnectionManager.connect
ManagerConnect(c, user_id) ==
    /\ active_connections' = Append(active_connections, c)
    /\ user_connections' =
          IF user_id # None
          THEN [user_connections EXCEPT ![user_id] = Append(@, c)]
          ELSE user_connections
    /\ UNCHANGED conversation_connections

\* the conversation whose list disconnect() edits: the first one, in dictionary
\* (insertion) order, that holds the websocket; 0 when there is none
FirstConversationOf(c) ==
    IF \E k \in ConvIds : InSeq(c, conversation_connections[k])
    THEN CHOOSE k \in ConvIds :
            /\ InSeq(c, conversation_connections[k])
            /\ \A j \in ConvIds : InSeq(c, conversation_connections[j]) => k <= j
    ELSE 0

\* a disconnect that would drop the user's whole entry
ManagerDisconnectDroppingUser(c, user_id) ==
    /\ active_connections' = SeqRemoveFirst(active_connections, c)
    /\ user_connections' =
          IF user_id # None /\ user_connections[user_id] # <<>>
          THEN [user_connections EXCEPT ![user_id] = <<>>]
          ELSE user_connections
    /\ conversation_connections' =
          IF FirstConversationOf(c) # 0
          THEN [conversation_connections EXCEPT
                   ![FirstConversationOf(c)] = SeqRemoveFirst(@, c)]
          ELSE conversation_connections

\* ConnectionManager.disconnect
ManagerDisconnect(c, user_id) ==
    /\ active_connections' = SeqRemoveFirst(active_connections, c)
    /\ user_connections' =
          IF user_id # None /\ user_connections[user_id] # <<>>
          THEN [user_connections EXCEPT ![user_id] = SeqRemoveFirst(@, c)]
          ELSE user_connections
    /\ conversation_connections' =
          IF FirstConversationOf(c) # 0
          THEN [conversation_connections EXCEPT
                   ![FirstConversationOf(c)] = SeqRemoveFirst(@, c)]
          ELSE conversation_connections

\* an attachment that would be made to every conversation
add_to_every_conversation(cc, c, conversation_id) ==
    [k \in ConvIds |-> Append(cc[k], c)]

\* ConnectionManager.add_to_conversation
add_to_conversation(cc, c, conversation_id) ==
    [cc EXCEPT ![conversation_id] = Append(@, c)]

\* ConnectionManager.send_to_conversation: send_text to each member in list order;
\* send_text on a closed transport raises and ends the iteration.
\* Delivered(conv) = members that receive the frame, BroadcastRaises = it raised
RECURSIVE DeliveredPrefix(_)
DeliveredPrefix(s) ==
    IF s = <<>> THEN <<>>
    ELSE IF sess[Head(s)].state = "open" THEN <<Head(s)>> \o DeliveredPrefix(Tail(s))
    ELSE <<>>

BroadcastRaises(conversation_id) ==
    \E i \in 1 .. Len(conversation_connections[conversation_id]) :
        sess[conversation_connections[conversation_id][i]].state # "open"

CountIn(x, s) == Cardinality({i \in 1 .. Len(s) : s[i] = x})

RECURSIVE Repeat(_, _)
Repeat(x, k) == IF k = 0 THEN <<>> ELSE <<x>> \o Repeat(x, k - 1)

\* a broadcast that would go to every registered session
send_to_active(ob, conversation_id, f) ==
    [d \in Conns |-> ob[d] \o Repeat(f, CountIn(d, DeliveredPrefix(active_connections)))]

\* the outboxes after frame f was broadcast to the members of conversation_id
send_to_conversation(ob, conversation_id, f) ==
    [d \in Conns |->
        ob[d] \o Repeat(f, CountIn(d, DeliveredPrefix(conversation_connections[conversation_id])))]

\* a frame written to a socket: user_message and ai_response are the ids in the
\* data of a message_broadcast frame, 0 in every other frame
Frame(kind, type, success, n) ==
    [kind |-> kind, type |-> type, success |-> success, n |-> n,
     user_message |-> 0, ai_response |-> 0]

\* handle_send_message lines 325-331: {"type": "message_broadcast", "data": response_data}
BroadcastFrame(user_message, ai_response) ==
    [Frame("broadcast", "message_broadcast", TRUE, 0) EXCEPT
        !.user_message = user_message, !.ai_response = ai_response]


\* ---------------------------------------------------------------- Init
Init ==
    /\ conversations = [k \in ConvIds |-> NoConversation]
    /\ messages = <<>>
    /\ clock = 0
    /\ mcp_servers = [s \in ServerIds |->
                        [exists |-> FALSE, user_id |-> None, is_active |-> FALSE,
                         api_key |-> None]]
    /\ active_connections = <<>>
    /\ user_connections = [u \in UserKeys |-> <<>>]
    /\ conversation_connections = [k \in ConvIds |-> <<>>]
    /\ sess = [c \in Conns |-> [state |-> "new", user_id |-> None, token |-> None]]
    /\ pc = [c \in Conns |-> "connect"]
    /\ turn = [c \in Conns |-> NoTurn]
    /\ nread = [c \in Conns |-> 0]
    /\ outbox = [c \in Conns |-> <<>>]
    /\ budget = MaxFrames
    /\ http = NoResponse
    /\ analytics = NoAnalytics

\* the chat service as in Init; the analytics database holds the metrics row of
\* conversation 1 as track_conversation_public("created") wrote it
InitAnalytics ==
    /\ conversations = [k \in ConvIds |-> NoConversation]
    /\ messages = <<>>
    /\ clock = 0
    /\ mcp_servers = [s \in ServerIds |->
                        [exists |-> FALSE, user_id |-> None, is_active |-> FALSE,
                         api_key |-> None]]
    /\ active_connections = <<>>
    /\ user_connections = [u \in UserKeys |-> <<>>]
    /\ conversation_connections = [k \in ConvIds |-> <<>>]
    /\ sess = [c \in Conns |-> [state |-> "new", user_id |-> None, token |-> None]]
    /\ pc = [c \in Conns |-> "connect"]
    /\ turn = [c \in Conns |-> NoTurn]
    /\ nread = [c \in Conns |-> 0]
    /\ outbox = [c \in Conns |-> <<>>]
    /\ budget = MaxFrames
    /\ http = NoResponse
    /\ analytics = [NoAnalytics EXCEPT
                        !.metrics = [exists |-> TRUE, message_count |-> 0,
                                     total_tokens |-> 0]]

\* a database in which alice has created conversation 1 over REST
\* (create_user_conversation) and registered her providers; two clients connect
\* and send TurnFrames frames between them
InitTurns ==
    /\ conversations = [k \in ConvIds |->
                           IF k = 1
                           THEN [exists |-> TRUE, status |-> "active", user_id |-> "ua",
                                 ended_at |-> NullTime]
                           ELSE NoConversation]
    /\ messages = <<>>
    /\ clock = 0
    /\ mcp_servers = [s \in ServerIds |->
                        [exists |-> TRUE, user_id |-> "ua", is_active |-> TRUE,
                         api_key |-> None]]
    /\ active_connections = <<>>
    /\ user_connections = [u \in UserKeys |-> <<>>]
    /\ conversation_connections = [k \in ConvIds |-> <<>>]
    /\ sess = [c \in Conns |-> [state |-> IF c <= 2 THEN "new" ELSE "absent",
                                 user_id |-> None, token |-> None]]
    /\ pc = [c \in Conns |-> IF c <= 2 THEN "connect" ELSE "done"]
    /\ turn = [c \in Conns |-> NoTurn]
    /\ nread = [c \in Conns |-> 0]
    /\ outbox = [c \in Conns |-> <<>>]
    /\ budget = TurnFrames
    /\ http = NoResponse
    /\ analytics = NoAnalytics

\* the database of InitTurns with a single client: the other connections are
\* never opened; ToolFrames frames follow
InitTools ==
    /\ conversations = [k \in ConvIds |->
                           IF k = 1
                           THEN [exists |-> TRUE, status |-> "active", user_id |-> "ua",
                                 ended_at |-> NullTime]
                           ELSE NoConversation]
    /\ messages = <<>>
    /\ clock = 0
    /\ mcp_servers = [s \in ServerIds |->
                        [exists |-> TRUE, user_id |-> "ua", is_active |-> TRUE,
                         api_key |-> None]]
    /\ active_connections = <<>>
    /\ user_connections = [u \in UserKeys |-> <<>>]
    /\ conversation_connections = [k \in ConvIds |-> <<>>]
    /\ sess = [c \in Conns |-> [state |-> IF c = 1 THEN "new" ELSE "absent",
                                 user_id |-> None, token |-> None]]
    /\ pc = [c \in Conns |-> IF c = 1 THEN "connect" ELSE "done"]
    /\ turn = [c \in Conns |-> NoTurn]
    /\ nread = [c \in Conns |-> 0]
    /\ outbox = [c \in Conns |-> <<>>]
    /\ budget = ToolFrames
    /\ http = NoResponse
    /\ analytics = NoAnalytics

\* a single client whose way of connecting is open: alice has registered
\* provider 1 with a stored credential, bob provider 2 without one; CredFrames
\* frames follow
InitCreds ==
    /\ conversations = [k \in ConvIds |->
                           IF k = 1
                           THEN [exists |-> TRUE, status |-> "active", user_id |-> "ua",
                                 ended_at |-> NullTime]
                           ELSE NoConversation]
    /\ messages = <<>>
    /\ clock = 0
    /\ mcp_servers = [s \in ServerIds |->
                        [exists |-> TRUE, user_id |-> IF s = 1 THEN "ua" ELSE "ub",
                         is_active |-> TRUE,
                         api_key |-> IF s = 1 THEN "key1" ELSE None]]
    /\ active_connections = <<>>
    /\ user_connections = [u \in UserKeys |-> <<>>]
    /\ conversation_connections = [k \in ConvIds |-> <<>>]
    /\ sess = [c \in Conns |-> [state |-> IF c = 1 THEN "new" ELSE "absent",
                                 user_id |-> None, token |-> None]]
    /\ pc = [c \in Conns |-> IF c = 1 THEN "connect" ELSE "done"]
    /\ turn = [c \in Conns |-> NoTurn]
    /\ nread = [c \in Conns |-> 0]
    /\ outbox = [c \in Conns |-> <<>>]
    /\ budget = CredFrames
    /\ http = NoResponse
    /\ analytics = NoAnalytics

\* alice's conversation 1 holds one finished turn; one client is about to
\* connect and no provider is registered
InitLife ==
    /\ conversations = [k \in ConvIds |->
                           IF k = 1
                           THEN [exists |-> TRUE, status |-> "active", user_id |-> "ua",
                                 ended_at |-> NullTime]
                           ELSE NoConversation]
    /\ messages = <<[conversation_id |-> 1, role |-> "user", content |-> "hi",
                     timestamp |-> 0 - 2, message_metadata |-> NullMeta, conn |-> 0, n |-> 0],
                    [conversation_id |-> 1, role |-> "assistant", content |-> "answer",
                     timestamp |-> 0 - 1, message_metadata |-> NullMeta, conn |-> 0, n |-> 0]>>
    /\ clock = 0
    /\ mcp_servers = [s \in ServerIds |->
                        [exists |-> FALSE, user_id |-> None, is_active |-> FALSE,
                         api_key |-> None]]
    /\ active_connections = <<>>
    /\ user_connections = [u \in UserKeys |-> <<>>]
    /\ conversation_connections = [k \in ConvIds |-> <<>>]
    /\ sess = [c \in Conns |-> [state |-> IF c = 1 THEN "new" ELSE "absent",
                                 user_id |-> None, token |-> None]]
    /\ pc = [c \in Conns |-> IF c = 1 THEN "connect" ELSE "done"]
    /\ turn = [c \in Conns |-> NoTurn]
    /\ nread = [c \in Conns |-> 0]
    /\ outbox = [c \in Conns |-> <<>>]
    /\ budget = LifeFrames
    /\ http = NoResponse
    /\ analytics = NoAnalytics

\* the same tables for one client that sends frames of every kind
InitFrames ==
    /\ conversations = [k \in ConvIds |->
                           IF k = 1
                           THEN [exists |-> TRUE, status |-> "active", user_id |-> "ua",
                                 ended_at |-> NullTime]
                           ELSE NoConversation]
    /\ messages = <<[conversation_id |-> 1, role |-> "user", content |-> "hi",
                     timestamp |-> 0 - 2, message_metadata |-> NullMeta, conn |-> 0, n |-> 0],
                    [conversation_id |-> 1, role |-> "assistant", content |-> "answer",
                     timestamp |-> 0 - 1, message_metadata |-> NullMeta, conn |-> 0, n |-> 0]>>
    /\ clock = 0
    /\ mcp_servers = [s \in ServerIds |->
                        [exists |-> FALSE, user_id |-> None, is_active |-> FALSE,
                         api_key |-> None]]
    /\ active_connections = <<>>
    /\ user_connections = [u \in UserKeys |-> <<>>]
    /\ conversation_connections = [k \in ConvIds |-> <<>>]
    /\ sess = [c \in Conns |-> [state |-> IF c = 1 THEN "new" ELSE "absent",
                                 user_id |-> None, token |-> None]]
    /\ pc = [c \in Conns |-> IF c = 1 THEN "connect" ELSE "done"]
    /\ turn = [c \in Conns |-> NoTurn]
    /\ nread = [c \in Conns |-> 0]
    /\ outbox = [c \in Conns |-> <<>>]
    /\ budget = FrameBound
    /\ http = NoResponse
    /\ analytics = NoAnalytics

\* empty tables; two clients are about to connect and send SessFrames frames
\* between them
InitSessions ==
    /\ conversations = [k \in ConvIds |-> NoConversation]
    /\ messages = <<>>
    /\ clock = 0
    /\ mcp_servers = [s \in ServerIds |->
                        [exists |-> FALSE, user_id |-> None, is_active |-> FALSE,
                         api_key |-> None]]
    /\ active_connections = <<>>
    /\ user_connections = [u \in UserKeys |-> <<>>]
    /\ conversation_connections = [k \in ConvIds |-> <<>>]
    /\ sess = [c \in Conns |-> [state |-> IF c <= 2 THEN "new" ELSE "absent",
                                 user_id |-> None, token |-> None]]
    /\ pc = [c \in Conns |-> IF c <= 2 THEN "connect" ELSE "done"]
    /\ turn = [c \in Conns |-> NoTurn]
    /\ nread = [c \in Conns |-> 0]
    /\ outbox = [c \in Conns |-> <<>>]
    /\ budget = SessFrames
    /\ http = NoResponse
    /\ analytics = NoAnalytics

\* alice has created conversation 1 over REST; two clients are about to connect,
\* to the user endpoint or to the endpoint of a conversation, and send
\* AttachFrames frames between them
InitAttach ==
    /\ conversations = [k \in ConvIds |->
                           IF k = 1
                           THEN [exists |-> TRUE, status |-> "active", user_id |-> "ua",
                                 ended_at |-> NullTime]
                           ELSE NoConversation]
    /\ messages = <<>>
    /\ clock = 0
    /\ mcp_servers = [s \in ServerIds |->
                        [exists |-> FALSE, user_id |-> None, is_active |-> FALSE,
                         api_key |-> None]]
    /\ active_connections = <<>>
    /\ user_connections = [u \in UserKeys |-> <<>>]
    /\ conversation_connections = [k \in ConvIds |-> <<>>]
    /\ sess = [c \in Conns |-> [state |-> IF c <= 2 THEN "new" ELSE "absent",
                                 user_id |-> None, token |-> None]]
    /\ pc = [c \in Conns |-> IF c <= 2 THEN "connect" ELSE "done"]
    /\ turn = [c \in Conns |-> NoTurn]
    /\ nread = [c \in Conns |-> 0]
    /\ outbox = [c \in Conns |-> <<>>]
    /\ budget = AttachFrames
    /\ http = NoResponse
    /\ analytics = NoAnalytics

\* the same tables with two clients about to connect
InitEnds ==
    /\ conversations = [k \in ConvIds |->
                           IF k = 1
                           THEN [exists |-> TRUE, status |-> "active", user_id |-> "ua",
                                 ended_at |-> NullTime]
                           ELSE NoConversation]
    /\ messages = <<[conversation_id |-> 1, role |-> "user", content |-> "hi",
                     timestamp |-> 0 - 2, message_metadata |-> NullMeta, conn |-> 0, n |-> 0],
                    [conversation_id |-> 1, role |-> "assistant", content |-> "answer",
                     timestamp |-> 0 - 1, message_metadata |-> NullMeta, conn |-> 0, n |-> 0]>>
    /\ clock = 0
    /\ mcp_servers = [s \in ServerIds |->
                        [exists |-> FALSE, user_id |-> None, is_active |-> FALSE,
                         api_key |-> None]]
    /\ active_connections = <<>>
    /\ user_connections = [u \in UserKeys |-> <<>>]
    /\ conversation_connections = [k \in ConvIds |-> <<>>]
    /\ sess = [c \in Conns |-> [state |-> IF c <= 2 THEN "new" ELSE "absent",
                                 user_id |-> None, token |-> None]]
    /\ pc = [c \in Conns |-> IF c <= 2 THEN "connect" ELSE "done"]
    /\ turn = [c \in Conns |-> NoTurn]
    /\ nread = [c \in Conns |-> 0]
    /\ outbox = [c \in Conns |-> <<>>]
    /\ budget = EndFrames
    /\ http = NoResponse
    /\ analytics = NoAnalytics

\* rows of a conversation that already went through k/2 turns, written at
\* consecutive clock values before the present one
HistoryRows(k) ==
    [i \in 1 .. k |->
        [conversation_id |-> 1, role |-> IF i % 2 = 1 THEN "user" ELSE "assistant",
         content |-> IF i % 2 = 1 THEN "hi" ELSE "answer", timestamp |-> i - k - 1,
         message_metadata |-> NullMeta, conn |-> 0, n |-> 0]]

\* a long-running conversation: alice's conversation 1 holds between
\* DefaultLimit - 4 and DefaultLimit - 2 + 2 * HistSlack rows of earlier turns
InitHistory ==
    /\ conversations = [k \in ConvIds |->
                           IF k = 1
                           THEN [exists |-> TRUE, status |-> "active", user_id |-> "ua",
                                 ended_at |-> NullTime]
                           ELSE NoConversation]
    /\ \E h \in 0 .. (HistSlack + 1) : messages = HistoryRows(DefaultLimit - 4 + 2 * h)
    /\ clock = 0
    /\ mcp_servers = [s \in ServerIds |->
                        [exists |-> FALSE, user_id |-> None, is_active |-> FALSE,
                         api_key |-> None]]
    /\ active_connections = <<>>
    /\ user_connections = [u \in UserKeys |-> <<>>]
    /\ conversation_connections = [k \in ConvIds |-> <<>>]
    /\ sess = [c \in Conns |-> [state |-> IF c = 1 THEN "new" ELSE "absent",
                                 user_id |-> None, token |-> None]]
    /\ pc = [c \in Conns |-> IF c = 1 THEN "connect" ELSE "done"]
    /\ turn = [c \in Conns |-> NoTurn]
    /\ nread = [c \in Conns |-> 0]
    /\ outbox = [c \in Conns |-> <<>>]
    /\ budget = HistFrames
    /\ http = NoResponse
    /\ analytics = NoAnalytics

\* ------------------------------------------------------- environment
\* the database clock advances; only the order of timestamps is observable, so
\* one advance after the latest row stands for any amount of elapsed time
Tick ==
    /\ clock < MaxClock
    /\ messages # <<>>
    /\ messages[Len(messages)].timestamp = clock
    /\ clock' = clock + 1
    /\ UNCHANGED <<conversations, messages, mcp_servers, registryVars, sess, pc, turn,
                   nread, outbox, budget, http, analytics>>

\* PUT /mcp-servers/{id} with is_active (mcp_server_crud.update_mcp_server)
update_mcp_server(s, active) ==
    /\ mcp_servers[s].exists
    /\ mcp_servers[s].is_active # active
    /\ mcp_servers' = [mcp_servers EXCEPT ![s].is_active = active]
    /\ UNCHANGED <<conversations, messages, clock, registryVars, sess, pc, turn,
                   nread, outbox, budget, http, analytics>>

\* ------------------------------------------------------- session loop
\* handle_connection lines 84-85: keep the token, register the session
Accept(c, user_id, token) ==
    /\ sess' = [sess EXCEPT ![c] = [state |-> "open", user_id |-> user_id, token |-> token]]
    /\ ManagerConnect(c, user_id)
    /\ pc' = [pc EXCEPT ![c] = "recv"]
    /\ UNCHANGED <<dbVars, turn, nread, outbox, budget, http, analytics>>

\* app.websocket_chat_anonymous -> handle_connection(websocket)
ConnectAnonymous(c) ==
    /\ pc[c] = "connect"
    /\ Accept(c, None, None)

\* security.oauth.verify_token: the subject of a valid token, None when it raises
verify_token(token) ==
    IF token = "tok_alice" THEN "alice" ELSE IF token = "tok_bob" THEN "bob" ELSE None

Tokens == {None, "tok_alice", "tok_bob", "bad"}

\* an endpoint that would not compare the subject of the token with the path
UserEndpointRejectsInvalidOnly(user_id, token) ==
    token # None /\ verify_token(token) = None

\* app.websocket_chat_with_user: TRUE when the endpoint raises WebSocketException
UserEndpointRejects(user_id, token) ==
    token # None /\ verify_token(token) # user_id

\* app.websocket_conversation lines 96-152: TRUE when the endpoint raises
\* WebSocketException (no token, verify_token raises, no such conversation, no
\* such user, or the conversation is not the user's)
ConversationEndpointRejects(conversation_id, token) ==
    \/ token = None
    \/ verify_token(token) = None
    \/ ~get_conversation(conversation_id).exists
    \/ UserDbId(verify_token(token)) = None
    \/ get_conversation(conversation_id).user_id # UserDbId(verify_token(token))

\* app.websocket_conversation: a request that passes the checks is handed to
\* handle_connection(websocket, user.id), without the token and without the
\* conversation; any other is refused before it
ConnectConversation(c) ==
    /\ pc[c] = "connect"
    /\ \E conversation_id \in ConvIds, token \in Tokens :
        IF ConversationEndpointRejects(conversation_id, token)
        THEN /\ sess' = [sess EXCEPT ![c] = [state |-> "rejected", user_id |-> None,
                                             token |-> token]]
             /\ pc' = [pc EXCEPT ![c] = "done"]
             /\ UNCHANGED <<dbVars, registryVars, turn, nread, outbox, budget, http,
                            analytics>>
        ELSE Accept(c, UserDbId(verify_token(token)), None)

\* app.websocket_chat_with_user with a token that passes the checks
ConnectUser(c) ==
    /\ pc[c] = "connect"
    /\ \E user_id \in Usernames, token \in Tokens \ {None} :
        /\ ~UserEndpointRejects(user_id, token)
        /\ Accept(c, user_id, token)

\* app.websocket_chat_with_user without a token: lines 197-201
ConnectUserNoToken(c) ==
    /\ pc[c] = "connect"
    /\ \E user_id \in Usernames :
        /\ ~UserEndpointRejects(user_id, None)
        /\ Accept(c, user_id, None)

\* app.websocket_chat_with_user raising before handle_connection is called; the
\* path user_id and the token the client presented are kept with the attempt
ConnectRejected(c) ==
    /\ pc[c] = "connect"
    /\ \E user_id \in Usernames, token \in Tokens :
        /\ UserEndpointRejects(user_id, token)
        /\ sess' = [sess EXCEPT ![c] = [state |-> "rejected", user_id |-> user_id,
                                        token |-> token]]
    /\ pc' = [pc EXCEPT ![c] = "done"]
    /\ UNCHANGED <<dbVars, registryVars, turn, nread, outbox, budget, http, analytics>>

\* the loop of handle_connection is suspended in receive_text
RECURSIVE SumUpTo(_, _)
SumUpTo(f, k) == IF k = 0 THEN 0 ELSE f[k] + SumUpTo(f, k - 1)

\* frames read so far on all connections
FramesRead == SumUpTo(nread, NumConns)

\* a loop that would read the next frame while a handler is still suspended
CanReceiveInFlight(c) == pc[c] \notin {"connect", "done"} /\ FramesRead + http.n < budget

CanReceive(c) == pc[c] = "recv" /\ FramesRead + http.n < budget

Respond(ob, c, f) == [ob EXCEPT ![c] = Append(@, f)]

\* receive_text raises WebSocketDisconnect: manager.disconnect, the loop ends
RecvDisconnect(c) ==
    /\ pc[c] = "recv"
    /\ ManagerDisconnect(c, sess[c].user_id)
    /\ sess' = [sess EXCEPT ![c].state = "disconnected"]
    /\ pc' = [pc EXCEPT ![c] = "done"]
    /\ UNCHANGED <<dbVars, turn, nread, outbox, budget, http, analytics>>

\* json.loads raises JSONDecodeError: the handler outside the while loop writes an
\* error frame, then handle_connection returns and the endpoint closes the socket
RecvBadJson(c) ==
    /\ CanReceive(c)
    /\ nread' = [nread EXCEPT ![c] = @ + 1]
    /\ turn' = [turn EXCEPT ![c] = [NoTurn EXCEPT !.kind = "bad_json", !.n = nread[c] + 1]]
    /\ outbox' = Respond(outbox, c, Frame("response", "error", FALSE, nread[c] + 1))
    /\ sess' = [sess EXCEPT ![c].state = "closed"]
    /\ pc' = [pc EXCEPT ![c] = "done"]
    /\ UNCHANGED <<dbVars, registryVars, budget, http, analytics>>

\* process_message: a type that is none of the three, or data that fails the
\* request schema of its handler
RecvInvalid(c) ==
    /\ CanReceive(c)
    /\ \E type \in {"error", "start_conversation", "send_message", "end_conversation"} :
        /\ turn' = [turn EXCEPT ![c] = [NoTurn EXCEPT !.kind = "invalid", !.n = nread[c] + 1]]
        /\ outbox' = Respond(outbox, c, Frame("response", type, FALSE, nread[c] + 1))
    /\ nread' = [nread EXCEPT ![c] = @ + 1]
    /\ UNCHANGED <<dbVars, registryVars, sess, pc, budget, http, analytics>>

\* process_message line 141 on a frame shaped {action: name, data: {...}}:
\* message_data.get("type") is None, so the frame is answered as an unknown type
\* and none of the handlers runs
RecvActionFrame(c) ==
    /\ CanReceive(c)
    /\ \E name \in {"start_conversation", "send_message", "end_conversation"} :
        turn' = [turn EXCEPT ![c] = [NoTurn EXCEPT !.kind = "unknown", !.n = nread[c] + 1,
                                                   !.frame = [key |-> "action",
                                                              name |-> name]]]
    /\ outbox' = Respond(outbox, c, Frame("response", "error", FALSE, nread[c] + 1))
    /\ nread' = [nread EXCEPT ![c] = @ + 1]
    /\ UNCHANGED <<dbVars, registryVars, sess, pc, budget, http, analytics>>

\* schemas.WebSocketResponse: the keys at the top level of every response frame
WebSocketResponse == {"type", "success", "data", "error"}

\* handle_start_conversation -> start_conversation
RecvStart(c) ==
    /\ CanReceive(c)
    /\ NextConvId \in ConvIds
    /\ \E request_user_id \in {None} \cup Usernames, system_message \in BOOLEAN :
        LET user_id == IF sess[c].user_id # None THEN sess[c].user_id ELSE request_user_id
            id == NextConvId
            system_msg == ChatMessageCreate([conversation_id |-> id, role |-> "system",
                                             content |-> "sys"])
        IN /\ conversations' = [conversations EXCEPT ![id] =
                  [exists |-> TRUE, status |-> "active", user_id |-> user_id,
                   ended_at |-> NullTime]]
           /\ messages' = IF system_message
                          THEN Append(messages, NewMessageRow(system_msg, c, nread[c] + 1))
                          ELSE messages
           /\ conversation_connections' = add_to_conversation(conversation_connections, c, id)
           /\ turn' = [turn EXCEPT ![c] = [NoTurn EXCEPT !.kind = "start", !.conv = id,
                                                          !.n = nread[c] + 1, !.svc = "ok",
                                                          !.data = [NoData EXCEPT
                                                                      !.status = "active"]]]
           /\ outbox' = Respond(outbox, c,
                                Frame("response", "start_conversation", TRUE, nread[c] + 1))
    /\ nread' = [nread EXCEPT ![c] = @ + 1]
    /\ UNCHANGED <<clock, mcp_servers, active_connections, user_connections, sess, pc, budget, http, analytics>>

\* an end that would file the conversation away
end_conversationArchiving(conversation_id) ==
    [conversations EXCEPT ![conversation_id].status = "archived",
                          ![conversation_id].ended_at = clock]

\* crud.end_conversation on an existing row
end_conversation(conversation_id) ==
    [conversations EXCEPT ![conversation_id].status = "ended",
                          ![conversation_id].ended_at = clock]

\* handle_end_conversation -> end_conversation
RecvEnd(c) ==
    /\ CanReceive(c)
    /\ \E conversation_id \in ConvIds :
        IF ~get_conversation(conversation_id).exists
        THEN /\ turn' = [turn EXCEPT ![c] = [NoTurn EXCEPT !.kind = "end", !.svc = "fail",
                                   !.conv = conversation_id, !.n = nread[c] + 1]]
             /\ outbox' = Respond(outbox, c,
                                  Frame("response", "end_conversation", FALSE, nread[c] + 1))
             /\ UNCHANGED conversations
        ELSE /\ conversations' = end_conversation(conversation_id)
             /\ turn' = [turn EXCEPT ![c] = [NoTurn EXCEPT !.kind = "end", !.svc = "ok",
                                   !.conv = conversation_id, !.n = nread[c] + 1,
                                   !.data = IF BroadcastRaises(conversation_id) THEN NoData
                                            ELSE [status |-> conversations'[conversation_id].status,
                                                  ended_at |-> conversations'[conversation_id].ended_at]]]
             /\ outbox' = Respond(
                    send_to_conversation(outbox, conversation_id,
                                         Frame("broadcast", "conversation_ended", TRUE, 0)),
                    c, Frame("response", "end_conversation",
                             ~BroadcastRaises(conversation_id), nread[c] + 1))
    /\ nread' = [nread EXCEPT ![c] = @ + 1]
    /\ UNCHANGED <<messages, clock, mcp_servers, registryVars, sess, pc, budget, http, analytics>>


\* ------------------------------------------------------- orchestrator
\* send_message lines 117-127: the lists openai_messages may be, as row numbers.
\* The query ran when the table held turn[c].history_upto rows; rows are never
\* changed afterwards, so every result the database may have returned is
\* recomputed from that prefix instead of being kept per connection
OpenaiMessages(c) ==
    get_conversation_messages(SubSeq(messages, 1, turn[c].history_upto), turn[c].conv, 0,
                              DefaultLimit)

\* handle_send_message: the user id handed to send_message
ActualUserId(user_id) ==
    IF user_id # None /\ UserDbId(user_id) # None THEN UserDbId(user_id) ELSE user_id

\* a model call that would be sent twice
IssueCallTwice(t, kind) ==
    [t EXCEPT !.calls = @ \o <<[kind |-> kind, status |-> "ok"],
                               [kind |-> kind, status |-> "pending"]>>]

\* _call_openai_api entered: calls lists the model-provider calls of the turn in
\* the order they were issued
IssueCall(t, kind) == [t EXCEPT !.calls = Append(@, [kind |-> kind, status |-> "pending"])]

\* _call_openai_api returned (ok) or raised ValueError
AnswerCall(t, ok) ==
    [t EXCEPT !.calls[Len(t.calls)].status = IF ok THEN "ok" ELSE "fail"]

\* what stays known of a frame once its handler has returned
Finished(t) ==
    [NoTurn EXCEPT !.kind = t.kind, !.conv = t.conv, !.n = t.n, !.svc = t.svc,
                   !.error = t.error, !.user_message = t.user_message,
                   !.ai_message = t.ai_message, !.tool_result = t.tool_result,
                   !.function_name = t.function_name, !.args_ok = t.args_ok,
                   !.tool_calls = t.tool_calls, !.calls = t.calls]

\* a failure that would end the loop of the connection
FailSendClosing(c, t, error) ==
    /\ turn' = [turn EXCEPT ![c] = Finished([t EXCEPT !.svc = "fail", !.error = error])]
    /\ outbox' = Respond(outbox, c, Frame("response", "send_message", FALSE, t.n))
    /\ pc' = [pc EXCEPT ![c] = "done"]

\* send_message raises: handle_send_message answers success=False
FailSend(c, t, error) ==
    /\ turn' = [turn EXCEPT ![c] = Finished([t EXCEPT !.svc = "fail", !.error = error])]
    /\ outbox' = Respond(outbox, c, Frame("response", "send_message", FALSE, t.n))
    /\ pc' = [pc EXCEPT ![c] = "recv"]

\* an answer that would be written over the row of the user message
FinishSendOverwriting(c, t) ==
    LET ai_message == ChatMessageCreate([conversation_id |-> t.conv, role |-> "assistant",
                                         content |-> t.response_content,
                                         metadata |-> t.response_metadata])
    IN /\ messages' = [messages EXCEPT ![t.user_message] = NewMessageRow(ai_message, c, t.n)]
       /\ turn' = [turn EXCEPT ![c] = Finished([t EXCEPT !.ai_message = t.user_message,
                                                         !.svc = "ok"])]
       /\ outbox' = Respond(
              send_to_conversation(outbox, t.conv,
                                   Frame("broadcast", "message_broadcast", TRUE, 0)),
              c, Frame("response", "send_message", ~BroadcastRaises(t.conv), t.n))
       /\ pc' = [pc EXCEPT ![c] = "recv"]

\* an answer that would be returned without being persisted
FinishSendUnsaved(c, t) ==
    /\ messages' = messages
    /\ turn' = [turn EXCEPT ![c] = Finished([t EXCEPT !.ai_message = t.user_message,
                                                      !.svc = "ok"])]
    /\ outbox' = Respond(
           send_to_conversation(outbox, t.conv,
                                BroadcastFrame(t.user_message, t.user_message)),
           c, Frame("response", "send_message", ~BroadcastRaises(t.conv), t.n))
    /\ pc' = [pc EXCEPT ![c] = "recv"]

\* send_message lines 238-261 and handle_send_message lines 283-337: persist the
\* assistant message, broadcast, write the response frame
FinishSend(c, t) ==
    LET ai_message == ChatMessageCreate([conversation_id |-> t.conv, role |-> "assistant",
                                         content |-> t.response_content,
                                         metadata |-> t.response_metadata])
    IN /\ messages' = Append(messages, NewMessageRow(ai_message, c, t.n))
       /\ turn' = [turn EXCEPT ![c] = Finished([t EXCEPT !.ai_message = Len(messages) + 1,
                                                         !.svc = "ok"])]
       /\ outbox' = Respond(
              send_to_conversation(outbox, t.conv,
                                   BroadcastFrame(t.user_message, Len(messages) + 1)),
              c, Frame("response", "send_message", ~BroadcastRaises(t.conv), t.n))
       /\ pc' = [pc EXCEPT ![c] = "recv"]

\* a send that would fail where the function-calling block gave no content
FallBackFailing(c, t) ==
    /\ FailSend(c, t, "Error in MCP function calling")
    /\ UNCHANGED messages

\* lines 231-233: no content yet, the plain call is issued
FallBack(c, t) ==
    /\ turn' = [turn EXCEPT ![c] = IssueCall(t, "plain")]
    /\ pc' = [pc EXCEPT ![c] = "model_plain"]
    /\ UNCHANGED <<messages, outbox>>

\* a check that lets a conversation of any status through
CheckConversationLax(conversation) ==
    IF ~conversation.exists THEN "Conversation not found" ELSE None

\* send_message lines 95-102: the ValueError raised for the conversation, None
\* when it passes
CheckConversation(conversation) ==
    IF ~conversation.exists THEN "Conversation not found"
    ELSE IF conversation.status # "active" THEN "Conversation is not active"
    ELSE None

\* send_message lines 95-144, up to the first network call
RecvSend(c) ==
    /\ CanReceive(c)
    /\ nread' = [nread EXCEPT ![c] = @ + 1]
    /\ \E conversation_id \in ConvIds, content \in Contents :
        LET conversation == get_conversation(conversation_id)
            t == [NoTurn EXCEPT !.kind = "send", !.conv = conversation_id,
                                !.n = nread[c] + 1]
            user_id == ActualUserId(sess[c].user_id)
        IN IF CheckConversation(conversation) # None
           THEN FailSend(c, t, CheckConversation(conversation)) /\ UNCHANGED messages
           ELSE LET user_message == ChatMessageCreate([conversation_id |-> conversation_id,
                                                       role |-> "user", content |-> content])
                    msgs == Append(messages, NewMessageRow(user_message, c, nread[c] + 1))
                    servers == IF user_id # None THEN get_user_mcp_servers(user_id) ELSE <<>>
                    t1 == [t EXCEPT !.user_message = Len(msgs), !.history_upto = Len(msgs),
                                    !.servers = servers]
                IN /\ messages' = msgs
                   /\ IF servers # <<>>
                      THEN /\ turn' = [turn EXCEPT ![c] = t1]
                           /\ pc' = [pc EXCEPT ![c] = "discover"]
                      ELSE /\ turn' = [turn EXCEPT ![c] = IssueCall(t1, "plain")]
                           /\ pc' = [pc EXCEPT ![c] = "model_plain"]
                   /\ UNCHANGED outbox
    /\ UNCHANGED <<conversations, clock, mcp_servers, registryVars, sess, budget, http, analytics>>

RECURSIVE ToolPairs(_)
\* the (server_id, tool_name) pairs of available_tools, in iteration order
ToolPairs(available) ==
    IF available = <<>> THEN <<>>
    ELSE [i \in 1 .. Len(ServerTools(Head(available))) |->
             <<Head(available), ServerTools(Head(available))[i]>>]
         \o ToolPairs(Tail(available))

\* tool_map[tool_name] = (server_id, tool_name): a later pair overwrites an earlier one
ToolMap(pairs) ==
    [name \in {pairs[i][2] : i \in 1 .. Len(pairs)} |->
        pairs[CHOOSE i \in 1 .. Len(pairs) :
                 /\ pairs[i][2] = name
                 /\ \A j \in 1 .. Len(pairs) : pairs[j][2] = name => j <= i][1]]

\* _discover_server_tools lines 79-87: the bearer credential of a tools/list
\* request, None when no Authorization header is set
DiscoverAuth(user_token, api_key) ==
    IF user_token # None THEN user_token
    ELSE IF api_key # None THEN api_key
    ELSE None

\* the tools/list requests get_available_tools sends for the servers it read
ListRequests(c, servers) ==
    [i \in 1 .. Len(servers) |->
        [method |-> "tools/list", server_id |-> servers[i],
         auth |-> DiscoverAuth(sess[c].token, mcp_servers[servers[i]].api_key)]]

\* a discovery that would give up on every provider once one listing failed
DiscoverAllOrNothing(c) ==
    /\ pc[c] = "discover"
    /\ \E listed \in SUBSET Range(turn[c].servers) :
        LET available == IF listed = Range(turn[c].servers) THEN turn[c].servers ELSE <<>>
            pairs == ToolPairs(available)
            t == [turn[c] EXCEPT !.requests = ListRequests(c, turn[c].servers),
                                 !.listed = listed]
        IN IF available = <<>>
           THEN /\ turn' = [turn EXCEPT ![c] = IssueCall(t, "plain")]
                /\ pc' = [pc EXCEPT ![c] = "model_plain"]
           ELSE /\ turn' = [turn EXCEPT ![c] =
                               IssueCall([t EXCEPT !.openai_functions =
                                                       [i \in 1 .. Len(pairs) |-> pairs[i][2]],
                                                   !.tool_map = ToolMap(pairs)],
                                         "functions")]
                /\ pc' = [pc EXCEPT ![c] = "model_fn"]
    /\ UNCHANGED <<dbVars, registryVars, sess, nread, outbox, budget, http, analytics>>

\* get_available_tools answered: listed = the servers whose tools/list succeeded
Discover(c) ==
    /\ pc[c] = "discover"
    /\ \E listed \in SUBSET Range(turn[c].servers) :
        LET available == SelectSeq(turn[c].servers,
                                   LAMBDA s : s \in listed /\ ServerTools(s) # <<>>)
            pairs == ToolPairs(available)
            t == [turn[c] EXCEPT !.requests = ListRequests(c, turn[c].servers),
                                 !.listed = listed]
        IN IF available = <<>>
           THEN /\ turn' = [turn EXCEPT ![c] = IssueCall(t, "plain")]
                /\ pc' = [pc EXCEPT ![c] = "model_plain"]
           ELSE /\ turn' = [turn EXCEPT ![c] =
                               IssueCall([t EXCEPT !.openai_functions =
                                                       [i \in 1 .. Len(pairs) |-> pairs[i][2]],
                                                   !.tool_map = ToolMap(pairs)],
                                         "functions")]
                /\ pc' = [pc EXCEPT ![c] = "model_fn"]
    /\ UNCHANGED <<dbVars, registryVars, sess, nread, outbox, budget, http, analytics>>

\* a check that would not look at the active flag again
CallToolPrecheckNoFlag(server_id, user_id) ==
    IF ~mcp_servers[server_id].exists THEN [error |-> "MCP server not found"]
    ELSE IF mcp_servers[server_id].user_id # user_id
    THEN [error |-> "Access denied to this MCP server"]
    ELSE NoResult

\* MCPToolsService.call_tool lines 143-153: the error returned before any request
\* is sent, NoResult when the request goes out
CallToolPrecheck(server_id, user_id) ==
    IF ~mcp_servers[server_id].exists THEN [error |-> "MCP server not found"]
    ELSE IF mcp_servers[server_id].user_id # user_id
    THEN [error |-> "Access denied to this MCP server"]
    ELSE IF ~mcp_servers[server_id].is_active THEN [error |-> "MCP server is not active"]
    ELSE NoResult

\* a rule that would prefer the stored credential
CallAuthStoredFirst(user_token, api_key) ==
    IF api_key # None THEN api_key
    ELSE IF user_token # None THEN user_token
    ELSE None

\* MCPToolsService.call_tool lines 155-161: the bearer credential of a
\* tools/call request, None when no Authorization header is set
CallAuth(user_token, api_key) ==
    IF user_token # None THEN user_token
    ELSE IF api_key # None THEN api_key
    ELSE None

\* the tools/call request call_tool sends
CallRequest(c, server_id) ==
    [method |-> "tools/call", server_id |-> server_id,
     auth |-> CallAuth(sess[c].token, mcp_servers[server_id].api_key)]

\* the answers a provider may give to tools/call: the HTTP status and the keys
\* of the JSON-RPC body; "exception" is a request that raises in the client
ToolOutcomes == {"result", "both", "rpc_error", "unexpected", "http_error", "exception"}

ToolStatusCode(outcome) == IF outcome = "http_error" THEN 500 ELSE 200

ToolBody(outcome) ==
    IF outcome = "result" THEN {"result"}
    ELSE IF outcome = "both" THEN {"result", "error"}
    ELSE IF outcome = "rpc_error" THEN {"error"}
    ELSE {}

\* a mapping that would pass the error of the body on beside its result
CallToolAnswerBoth(status_code, body) ==
    IF status_code = 200
    THEN IF body = {"result", "error"} THEN [result |-> "text", error |-> "rpc"]
         ELSE IF "result" \in body THEN [result |-> "text"]
         ELSE IF "error" \in body THEN [error |-> "rpc", code |-> 1]
         ELSE [error |-> "Unexpected response format", response |-> "body"]
    ELSE [error |-> "Tool execution failed", status_code |-> status_code]

\* MCPToolsService.call_tool lines 180-204: the value returned for an answer
\* with this status and these keys in its body
CallToolAnswer(status_code, body) ==
    IF status_code = 200
    THEN IF "result" \in body THEN [result |-> "text"]
         ELSE IF "error" \in body THEN [error |-> "rpc", code |-> 1]
         ELSE [error |-> "Unexpected response format", response |-> "body"]
    ELSE [error |-> "Tool execution failed", status_code |-> status_code]

\* MCPToolsService.call_tool lines 174-209: the value returned for each outcome of
\* the tools/call request
CallToolResult(outcome) ==
    IF outcome = "exception" THEN [error |-> "Error calling tool"]
    ELSE CallToolAnswer(ToolStatusCode(outcome), ToolBody(outcome))

Apology == "I tried to get that information but encountered an error"

\* the first model call (with the function schema) answered: lines 171-227
ModelFn(c) ==
    /\ pc[c] = "model_fn"
    /\ \/ \* the provider call fails: caught at line 223, the plain call follows
          FallBack(c, AnswerCall(turn[c], FALSE))
       \/ \* the model answers directly
          FinishSend(c, [AnswerCall(turn[c], TRUE) EXCEPT
                             !.response_content = "answer",
                             !.response_metadata = NoToolMeta])
       \/ \* the model elects a function
          \E function_name \in Range(turn[c].openai_functions) \cup {"bogus"},
             args_ok \in BOOLEAN :
            LET t == [AnswerCall(turn[c], TRUE) EXCEPT
                          !.function_name = function_name, !.args_ok = args_ok]
            IN IF ~args_ok \/ function_name \notin DOMAIN t.tool_map
               THEN \* json.loads or tool_map[...] raises: caught at line 223
                    FallBack(c, t)
               ELSE LET server_id == t.tool_map[function_name]
                        pre == CallToolPrecheck(server_id, ActualUserId(sess[c].user_id))
                    IN IF "error" \in DOMAIN pre
                       THEN FinishSend(c, [t EXCEPT
                                !.tool_result = pre,
                                !.response_content = Apology,
                                !.response_metadata = ToolMeta(function_name, server_id)])
                       ELSE /\ turn' = [turn EXCEPT ![c] =
                                      [t EXCEPT !.tool_calls = @ + 1,
                                                !.requests =
                                                    Append(@, CallRequest(c, server_id))]]
                            /\ pc' = [pc EXCEPT ![c] = "tool"]
                            /\ UNCHANGED <<messages, outbox>>
    /\ UNCHANGED <<conversations, clock, mcp_servers, registryVars, sess, nread, budget, http, analytics>>

\* a turn that would fail when the tool does
ToolReplyRaising(c) ==
    /\ pc[c] = "tool"
    /\ \E outcome \in ToolOutcomes :
        LET tool_result == CallToolResult(outcome)
            t == [turn[c] EXCEPT !.tool_result = tool_result]
        IN IF "error" \in DOMAIN tool_result
           THEN FailSend(c, t, "Tool error") /\ UNCHANGED messages
           ELSE /\ turn' = [turn EXCEPT ![c] = IssueCall(t, "followup")]
                /\ pc' = [pc EXCEPT ![c] = "model_final"]
                /\ UNCHANGED <<messages, outbox>>
    /\ UNCHANGED <<conversations, clock, mcp_servers, registryVars, sess, nread, budget, http, analytics>>

\* the tools/call request answered: call_tool lines 180-209, send_message 196-217
ToolReply(c) ==
    /\ pc[c] = "tool"
    /\ \E outcome \in ToolOutcomes :
        LET tool_result == CallToolResult(outcome)
            t == [turn[c] EXCEPT !.tool_result = tool_result]
        IN IF "error" \in DOMAIN tool_result
           THEN FinishSend(c, [t EXCEPT
                    !.response_content = Apology,
                    !.response_metadata =
                        ToolMeta(t.function_name, t.tool_map[t.function_name])])
           ELSE /\ turn' = [turn EXCEPT ![c] = IssueCall(t, "followup")]
                /\ pc' = [pc EXCEPT ![c] = "model_final"]
                /\ UNCHANGED <<messages, outbox>>
    /\ UNCHANGED <<conversations, clock, mcp_servers, registryVars, sess, nread, budget, http, analytics>>

\* a follow-up call that would be issued again after it failed
ModelFinalRetrying(c) ==
    /\ pc[c] = "model_final"
    /\ \/ FinishSend(c, [AnswerCall(turn[c], TRUE) EXCEPT
                             !.response_content = "answer",
                             !.response_metadata =
                                 ToolMeta(turn[c].function_name,
                                          turn[c].tool_map[turn[c].function_name])])
       \/ /\ Len(turn[c].calls) < 4
          /\ turn' = [turn EXCEPT ![c] = IssueCall(AnswerCall(@, FALSE), "followup")]
          /\ UNCHANGED <<messages, outbox, pc>>
    /\ UNCHANGED <<conversations, clock, mcp_servers, registryVars, sess, nread, budget, http, analytics>>

\* the follow-up model call (with the tool result) answered: lines 208-227
ModelFinal(c) ==
    /\ pc[c] = "model_final"
    /\ \/ FinishSend(c, [AnswerCall(turn[c], TRUE) EXCEPT
                             !.response_content = "answer",
                             !.response_metadata =
                                 ToolMeta(turn[c].function_name,
                                          turn[c].tool_map[turn[c].function_name])])
       \/ \* the provider call fails: caught at line 223, the plain call follows
          FallBack(c, AnswerCall(turn[c], FALSE))
    /\ UNCHANGED <<conversations, clock, mcp_servers, registryVars, sess, nread, budget, http, analytics>>

\* a plain call whose failure would be answered with an apology
ModelPlainSwallowing(c) ==
    /\ pc[c] = "model_plain"
    /\ \/ FinishSend(c, [AnswerCall(turn[c], TRUE) EXCEPT
                             !.response_content = "answer",
                             !.response_metadata = [@ EXCEPT !.finish_reason = "stop"]])
       \/ FinishSend(c, [AnswerCall(turn[c], FALSE) EXCEPT !.response_content = Apology])
    /\ UNCHANGED <<conversations, clock, mcp_servers, registryVars, sess, nread, budget, http, analytics>>

\* the plain model call answered: lines 232-236; its failure leaves send_message
ModelPlain(c) ==
    /\ pc[c] = "model_plain"
    /\ \/ FinishSend(c, [AnswerCall(turn[c], TRUE) EXCEPT
                             !.response_content = "answer",
                             !.response_metadata = [@ EXCEPT !.finish_reason = "stop"]])
       \/ /\ FailSend(c, AnswerCall(turn[c], FALSE), "OpenAI API error")
          /\ UNCHANGED messages
    /\ UNCHANGED <<conversations, clock, mcp_servers, registryVars, sess, nread, budget, http, analytics>>

\* DELETE /mcp-servers/{id}
delete_mcp_server(s) ==
    /\ mcp_servers[s].exists
    /\ mcp_servers' = [mcp_servers EXCEPT ![s].exists = FALSE]
    /\ UNCHANGED <<conversations, messages, clock, registryVars, sess, pc, turn,
                   nread, outbox, budget, http, analytics>>

\* POST /users/{user_id}/conversations/{conversation_id}/end by the owner
end_user_conversation(conversation_id) ==
    /\ get_conversation(conversation_id).exists
    /\ conversations' = end_conversation(conversation_id)
    /\ UNCHANGED <<messages, clock, mcp_servers, registryVars, sess, pc, turn, nread,
                   outbox, budget, http, analytics>>

\* security.CurrentUser of a request: its username and whether it is an admin
CurrentUsers == {[username |-> u, admin |-> FALSE] : u \in Usernames}
                    \cup {[username |-> "root", admin |-> TRUE]}

\* crud.get_user(db, user_id).username, None when there is no such user
UsernameOf(user_id) ==
    IF \E u \in Usernames : UserDbId(u) = user_id
    THEN CHOOSE u \in Usernames : UserDbId(u) = user_id ELSE None

\* the answer recorded for a reconnect request on conversation_id
Response(route, conversation_id, was, status_code, convs) ==
    [route |-> route, conversation_id |-> conversation_id, was |-> was,
     status_code |-> status_code,
     status |-> convs[conversation_id].status,
     messages |-> Cardinality(ConvMessageIds(messages, conversation_id)),
     n |-> http.n + 1]

\* crud.update_conversation with ConversationUpdate(status=ACTIVE): the fields
\* that were set are written, ended_at is not among them
update_conversation(conversation_id) ==
    [conversations EXCEPT ![conversation_id].status = "active"]

\* chat-service POST /users/{user_id}/conversations/{conversation_id}/reconnect.
\* conversation.status is the str of a String column, so the test of line 232,
\* conversation.status.value, raises AttributeError for every conversation that
\* passed the checks above it and the request is answered 500
reconnect_to_conversation(user_id, current_user, conversation_id) ==
    LET conversation == get_conversation(conversation_id)
        status_code ==
            IF UsernameOf(user_id) = None THEN 404
            ELSE IF ~current_user.admin /\ current_user.username # UsernameOf(user_id) THEN 403
            ELSE IF ~conversation.exists THEN 404
            ELSE IF ~current_user.admin /\ conversation.user_id # user_id THEN 403
            ELSE 500
    IN /\ FramesRead + http.n < budget
       /\ http' = Response("chat-service", conversation_id, conversation.status, status_code,
                           conversations)
       /\ UNCHANGED <<dbVars, registryVars, sess, pc, turn, nread, outbox, budget, analytics>>

\* openai_web_service POST /users/{user_id}/conversations/{conversation_id}/reconnect
web_reconnect_to_conversation(user_id, current_user, conversation_id) ==
    LET conversation == get_conversation(conversation_id)
        status_code ==
            IF UsernameOf(user_id) = None THEN 404
            ELSE IF ~current_user.admin /\ current_user.username # UsernameOf(user_id) THEN 403
            ELSE IF ~conversation.exists THEN 404
            ELSE IF conversation.user_id # user_id THEN 403
            ELSE 200
    IN /\ FramesRead + http.n < budget
       /\ conversations' = IF status_code = 200 /\ conversation.status = "ended"
                           THEN update_conversation(conversation_id)
                           ELSE conversations
       /\ http' = Response("openai_web_service", conversation_id, conversation.status,
                           status_code, conversations')
       /\ UNCHANGED <<messages, clock, mcp_servers, registryVars, sess, pc, turn, nread,
                      outbox, budget, analytics>>

\* track_message_public lines 345-366 at worker w: the message row is added to
\* the session (it is inserted at commit, the session does not autoflush), the
\* metrics row is queried and its counters are read into locals. The handler has
\* no suspension point, so a worker runs it to its end before it takes another
\* request; the statements of different workers interleave at the database
TrackMessageRead(w) ==
    /\ analytics.workers[w].pc = "idle"
    /\ Tracked < TrackBound
    /\ \E token_count \in TokenCounts :
        analytics' = [analytics EXCEPT
            !.workers[w] = [pc |-> "read", token_count |-> token_count,
                            current_message_count |-> analytics.metrics.message_count,
                            current_total_tokens |-> analytics.metrics.total_tokens],
            !.handled = @ \cup {w}]
    /\ UNCHANGED <<dbVars, registryVars, sess, pc, turn, nread, outbox, budget, http>>

\* an update that lets the database add to the stored counters
TrackMessageCommitAtomic(w) ==
    /\ analytics.workers[w].pc = "read"
    /\ analytics' = [analytics EXCEPT
            !.metrics = IF @.exists
                        THEN [@ EXCEPT !.message_count = @ + 1,
                                       !.total_tokens = @ + analytics.workers[w].token_count]
                        ELSE @,
            !.message_metrics = Append(@, analytics.workers[w].token_count),
            !.workers[w] = IdleWorker]
    /\ UNCHANGED <<dbVars, registryVars, sess, pc, turn, nread, outbox, budget, http>>

\* track_message_public lines 368-394 at worker w: the counters computed from the
\* locals are written with UPDATE and the session is committed
TrackMessageCommit(w) ==
    /\ analytics.workers[w].pc = "read"
    /\ analytics' = [analytics EXCEPT
            !.metrics = IF @.exists
                        THEN [@ EXCEPT
                                 !.message_count =
                                     analytics.workers[w].current_message_count + 1,
                                 !.total_tokens =
                                     analytics.workers[w].current_total_tokens
                                         + analytics.workers[w].token_count]
                        ELSE @,
            !.message_metrics = Append(@, analytics.workers[w].token_count),
            !.workers[w] = IdleWorker]
    /\ UNCHANGED <<dbVars, registryVars, sess, pc, turn, nread, outbox, budget, http>>

\* -------------------------------------------------------------- claims
\* a handler of connection c is suspended in a network call
InFlight(c) == pc[c] \in {"discover", "model_fn", "tool", "model_final", "model_plain"}

\* the response frames written to connection c, oldest first
Responses(c) == SelectSeq(outbox[c], LAMBDA f : f.kind = "response")

\* the send frame of connection c has been handled to its end
SendDone(c) == turn[c].kind = "send" /\ pc[c] = "recv"

\* C1: on one connection frames are handled strictly one at a time: every frame
\* read has been answered except the one whose handler is suspended, the answers
\* come in the order of the frames, the rows one connection persists are in the
\* order of its frames, and between the user rows of two send frames of one
\* connection lies the assistant row of the first (unless the first was answered
\* as failed)
SequentialLoop ==
    \A c \in Conns :
        /\ Len(Responses(c)) = nread[c] - (IF InFlight(c) THEN 1 ELSE 0)
        /\ \A k \in 1 .. Len(Responses(c)) : Responses(c)[k].n = k
        /\ \A i, j \in 1 .. Len(messages) :
            (i < j /\ messages[i].conn = c /\ messages[j].conn = c)
                => /\ messages[i].n <= messages[j].n
                   /\ (messages[i].role = "user" /\ messages[j].role = "user")
                        => \/ ~Responses(c)[messages[i].n].success
                           \/ \E a \in (i + 1) .. (j - 1) :
                                /\ messages[a].conn = c
                                /\ messages[a].n = messages[i].n
                                /\ messages[a].role = "assistant"

\* C1 witness: one connection has completed two sends, each with its assistant row
TwoTurnsDone ==
    \E c \in Conns : \E a, b \in 1 .. Len(messages) :
        /\ a < b
        /\ messages[a].conn = c /\ messages[a].role = "assistant" /\ messages[a].n = 1
        /\ messages[b].conn = c /\ messages[b].role = "assistant" /\ messages[b].n = 2
        /\ pc[c] = "recv"

\* C2: after a frame that is not valid JSON the connection has been sent an error
\* frame with success = false and its loop is reading frames again
BadJsonLoopContinues ==
    \A c \in Conns :
        turn[c].kind = "bad_json"
            => /\ outbox[c] # <<>>
               /\ outbox[c][Len(outbox[c])] = Frame("response", "error", FALSE, turn[c].n)
               /\ pc[c] = "recv"
               /\ sess[c].state = "open"

\* C3: a session that disconnect() was called for is in none of the registry's
\* indexes
DisconnectClearsRegistry ==
    \A c \in Conns :
        sess[c].state = "disconnected"
            => /\ ~InSeq(c, active_connections)
               /\ \A u \in UserKeys : ~InSeq(c, user_connections[u])
               /\ \A k \in ConvIds : ~InSeq(c, conversation_connections[k])

\* the step in which the tool elected in the turn of connection c fails: call_tool
\* returns an error before sending the request, or for the provider's answer
ToolFailure(c) ==
    /\ pc[c] \in {"model_fn", "tool"}
    /\ "error" \in DOMAIN turn'[c].tool_result

\* C4: when the elected tool fails, the send completes successfully in that same
\* step: an assistant row with the apology is persisted and returned, the frame
\* written back reports success, and the conversation row is left as it was
ToolFailureAnswered ==
    [][\A c \in Conns :
        ToolFailure(c)
            => /\ turn'[c].svc = "ok"
               /\ pc'[c] = "recv"
               /\ messages' = Append(messages, messages'[Len(messages')])
               /\ messages'[Len(messages')].role = "assistant"
               /\ messages'[Len(messages')].content = Apology
               /\ messages'[Len(messages')].conversation_id = turn[c].conv
               /\ turn'[c].ai_message = Len(messages')
               /\ outbox'[c] = Append(outbox[c],
                                      Frame("response", "send_message", TRUE, turn[c].n))
               /\ conversations' = conversations]_vars

\* C4 witness: a tools/call request was sent and failed, the send succeeded with
\* the apology and the conversation is active
ToolFailedSendSucceeded ==
    \E c \in Conns :
        /\ SendDone(c)
        /\ turn[c].tool_calls = 1
        /\ "error" \in DOMAIN turn[c].tool_result
        /\ turn[c].svc = "ok"
        /\ messages[turn[c].ai_message].content = Apology
        /\ conversations[turn[c].conv].status = "active"

ReadsSend(c, conversation_id) ==
    /\ nread'[c] = nread[c] + 1
    /\ turn'[c].kind = "send"
    /\ turn'[c].conv = conversation_id

\* the send of connection c was refused before anything was done
SendRefused(c, error) ==
    /\ turn'[c].svc = "fail"
    /\ turn'[c].error = error
    /\ messages' = messages
    /\ pc'[c] = "recv"
    /\ turn'[c].calls = <<>>
    /\ turn'[c].tool_calls = 0
    /\ outbox'[c] = Append(outbox[c],
                           Frame("response", "send_message", FALSE, turn'[c].n))
    /\ UNCHANGED <<conversations, mcp_servers>>

\* C7: a send on a conversation id without a row fails as not found, a send on a
\* conversation whose status is not active fails as not active; in either case
\* no row is written, no discovery is started and no model or tool call is made
SendOnUnusableConversation ==
    [][\A c \in Conns : \A conversation_id \in ConvIds :
        ReadsSend(c, conversation_id)
            => /\ ~conversations[conversation_id].exists
                    => SendRefused(c, "Conversation not found")
               /\ (/\ conversations[conversation_id].exists
                   /\ conversations[conversation_id].status # "active")
                    => SendRefused(c, "Conversation is not active")]_vars

\* C7 witness: a send on an ended conversation was refused
SendOnEndedRefused ==
    \E c \in Conns :
        /\ SendDone(c)
        /\ conversations[turn[c].conv].exists
        /\ conversations[turn[c].conv].status = "ended"
        /\ turn[c].error = "Conversation is not active"
        /\ messages = <<>>

\* C8: every list the model may be given holds every row persisted for the
\* conversation when the history was read, the turn's user row last
ContextHoldsEveryMessage ==
    \A c \in Conns :
        (InFlight(c) /\ turn[c].kind = "send")
            => \A L \in OpenaiMessages(c) :
                /\ ConvMessageIds(SubSeq(messages, 1, turn[c].history_upto), turn[c].conv)
                      \subseteq Range(L)
                /\ L # <<>>
                /\ L[Len(L)] = turn[c].user_message

\* C9: every list the model may be given has the conversation's rows in the order
\* they were created, and the timestamps of a conversation's rows never decrease
\* in creation order
ContextInCreationOrder ==
    /\ \A c \in Conns :
        (InFlight(c) /\ turn[c].kind = "send")
            => \A L \in OpenaiMessages(c) :
                \A i, j \in 1 .. Len(L) : i < j => L[i] < L[j]
    /\ \A i, j \in 1 .. Len(messages) :
        (i < j /\ messages[i].conversation_id = messages[j].conversation_id)
            => messages[i].timestamp <= messages[j].timestamp

\* the turn of connection c ended with the answer of the function-calling path:
\* the last model call was not the plain one
AnsweredByToolPath(c) ==
    /\ SendDone(c)
    /\ turn[c].svc = "ok"
    /\ turn[c].calls # <<>>
    /\ turn[c].calls[Len(turn[c].calls)].kind # "plain"

\* C10: the assistant row of a send that invoked a tool has metadata saying a tool
\* was used and which; the assistant row of a send the model answered directly
\* has metadata saying no tool was used
MetadataRecordsTool ==
    \A c \in Conns :
        AnsweredByToolPath(c)
            => LET m == messages[turn[c].ai_message].message_metadata
               IN IF turn[c].function_name # None
                  THEN m.mcp_tool_used = "true" /\ m.tool_name = turn[c].function_name
                  ELSE m.mcp_tool_used = "false"

\* user_id has no provider row that is active
NoActiveProvider(user_id) ==
    \A s \in ServerIds :
        ~(mcp_servers[s].exists /\ mcp_servers[s].user_id = user_id
          /\ mcp_servers[s].is_active)

\* the step in which connection c reads a send frame that passes the checks on
\* its conversation
StartsTurn(c) ==
    /\ nread'[c] = nread[c] + 1
    /\ turn'[c].kind = "send"
    /\ turn'[c].user_message # 0

\* C11: a send read while the caller has no active provider issues the plain
\* model call at once, without any request to a provider, and the turn ends with
\* that one call as its only model call and without a tool invocation
ZeroProvidersOnePlainCall ==
    [][\A c \in Conns :
        /\ (StartsTurn(c) /\ NoActiveProvider(ActualUserId(sess[c].user_id)))
            => /\ pc'[c] = "model_plain"
               /\ turn'[c].servers = <<>>
               /\ turn'[c].calls = <<[kind |-> "plain", status |-> "pending"]>>
               /\ turn'[c].requests = <<>>
               /\ turn'[c].tool_calls = 0
        /\ (pc[c] = "model_plain" /\ turn[c].servers = <<>> /\ turn'[c] # turn[c])
            => /\ pc'[c] = "recv"
               /\ Len(turn'[c].calls) = 1
               /\ turn'[c].calls[1].kind = "plain"
               /\ turn'[c].calls[1].status # "pending"
               /\ turn'[c].tool_calls = 0
               /\ turn'[c].tool_result = NoResult]_vars

\* C11 witness: alice's only provider is deactivated and her send was answered
\* by a single plain call
DeactivatedPlainTurnDone ==
    \E c \in Conns :
        /\ SendDone(c)
        /\ sess[c].user_id = "alice"
        /\ mcp_servers[1].exists /\ ~mcp_servers[1].is_active
        /\ turn[c].calls = <<[kind |-> "plain", status |-> "ok"]>>

\* C12: the providers a send reads for discovery are the caller's providers that
\* are active when the send is read, whatever was discovered before; only they
\* are sent a tools/list request and only they contribute functions
InactiveProviderNotQueried ==
    [][\A c \in Conns :
        /\ StartsTurn(c)
            => \A s \in ServerIds :
                s \in Range(turn'[c].servers)
                    <=> /\ mcp_servers[s].exists
                        /\ mcp_servers[s].is_active
                        /\ mcp_servers[s].user_id = ActualUserId(sess[c].user_id)
        /\ InFlight(c)'
            => /\ \A i \in 1 .. Len(turn'[c].requests) :
                    turn'[c].requests[i].server_id \in Range(turn'[c].servers)
               /\ \A f \in DOMAIN turn'[c].tool_map :
                    turn'[c].tool_map[f] \in Range(turn'[c].servers)
               /\ \A i \in 1 .. Len(turn'[c].openai_functions) :
                    \E s \in Range(turn'[c].servers) :
                        turn'[c].openai_functions[i] \in Range(ServerTools(s))]_vars

\* C12 witness: a first turn invoked a tool of provider 1, the provider was then
\* deactivated, and the second turn runs without any provider
SecondTurnAfterDeactivation ==
    \E c \in Conns :
        /\ nread[c] = 2
        /\ pc[c] = "model_plain"
        /\ sess[c].user_id = "alice"
        /\ ~mcp_servers[1].is_active
        /\ turn[c].servers = <<>>
        /\ turn[c].requests = <<>>
        /\ \E i \in 1 .. Len(messages) : messages[i].content = Apology

\* the step in which the model elects a function of the schema with arguments
\* that parse, so that call_tool is entered
EntersCallTool(c) ==
    /\ pc[c] = "model_fn"
    /\ turn'[c] # turn[c]
    /\ turn'[c].function_name \in DOMAIN turn[c].tool_map
    /\ turn'[c].args_ok
    /\ turn'[c].calls[1].status = "ok"
    /\ Len(turn'[c].calls) = 1

\* the provider record as call_tool finds it is usable by user_id
ProviderUsable(server_id, user_id) ==
    /\ mcp_servers[server_id].exists
    /\ mcp_servers[server_id].user_id = user_id
    /\ mcp_servers[server_id].is_active

\* C13: call_tool decides on the provider record as it is when the tool is
\* invoked: when the record is gone, not the caller's or inactive it returns an
\* error and no tools/call request is sent; otherwise the request is sent
CallToolRereadsProvider ==
    [][\A c \in Conns :
        EntersCallTool(c)
            => LET server_id == turn[c].tool_map[turn'[c].function_name]
               IN IF ProviderUsable(server_id, ActualUserId(sess[c].user_id))
                  THEN /\ pc'[c] = "tool"
                       /\ turn'[c].tool_calls = turn[c].tool_calls + 1
                       /\ Len(turn'[c].requests) = Len(turn[c].requests) + 1
                       /\ turn'[c].requests[Len(turn'[c].requests)].method = "tools/call"
                       /\ turn'[c].requests[Len(turn'[c].requests)].server_id = server_id
                  ELSE /\ "error" \in DOMAIN turn'[c].tool_result
                       /\ turn'[c].tool_calls = 0
                       /\ pc'[c] = "recv"]_vars

\* C13 witness: the provider was deactivated after discovery; the turn ended with
\* call_tool's error and without a tools/call request
DeactivatedSinceDiscovery ==
    \E c \in Conns :
        /\ SendDone(c)
        /\ "error" \in DOMAIN turn[c].tool_result
        /\ turn[c].tool_result.error = "MCP server is not active"
        /\ turn[c].tool_calls = 0

RECURSIVE ToolCount(_)
\* the number of tools of the providers in the list
ToolCount(servers) ==
    IF servers = <<>> THEN 0 ELSE Len(ServerTools(Head(servers))) + ToolCount(Tail(servers))

\* C14: discovery always ends in a model call; the function schema built from its
\* result lists the tools of exactly the providers whose tools/list succeeded, in
\* the order the providers were read, whichever other listings failed
DiscoveryOmitsOnlyFailures ==
    [][\A c \in Conns :
        (pc[c] = "discover" /\ turn'[c] # turn[c])
            => LET ok == SelectSeq(turn[c].servers, LAMBDA s : s \in turn'[c].listed)
               IN /\ pc'[c] \in {"model_fn", "model_plain"}
                  /\ Len(turn'[c].calls) = 1
                  /\ turn'[c].listed \subseteq Range(turn[c].servers)
                  /\ Len(turn'[c].openai_functions) = ToolCount(ok)
                  /\ \A s \in turn'[c].listed :
                        \A i \in 1 .. Len(ServerTools(s)) :
                            ServerTools(s)[i] \in Range(turn'[c].openai_functions)
                  /\ \A f \in DOMAIN turn'[c].tool_map :
                        turn'[c].tool_map[f] \in turn'[c].listed
                  /\ pc'[c] = "model_plain" <=> ok = <<>>]_vars

\* C14 witness: of two providers read, the listing of provider 1 failed and the
\* tools of provider 2 are in the schema
OneListingFailed ==
    \E c \in Conns :
        /\ pc[c] = "model_fn"
        /\ turn[c].servers = <<1, 2>>
        /\ turn[c].listed = {2}
        /\ turn[c].openai_functions = ServerTools(2)

\* C15: every request sent to a provider, tools/list or tools/call, carries the
\* session's token when there is one, otherwise the provider's stored credential
\* when there is one, otherwise no credential
CredentialPriority ==
    \A c \in Conns : \A i \in 1 .. Len(turn[c].requests) :
        LET r == turn[c].requests[i]
            api_key == mcp_servers[r.server_id].api_key
        IN /\ sess[c].token # None => r.auth = sess[c].token
           /\ (sess[c].token = None /\ api_key # None) => r.auth = api_key
           /\ (sess[c].token = None /\ api_key = None) => r.auth = None

\* C15 witness: a session without a token sent tools/list and tools/call to a
\* provider with a stored credential, both with that credential
StoredCredentialSentTwice ==
    \E c \in Conns :
        /\ sess[c].token = None
        /\ Len(turn[c].requests) = 2
        /\ turn[c].requests[1] = [method |-> "tools/list", server_id |-> 1, auth |-> "key1"]
        /\ turn[c].requests[2] = [method |-> "tools/call", server_id |-> 1, auth |-> "key1"]

\* C16: whatever call_tool returns has exactly one of the keys result and error
ToolResultOneShape ==
    \A c \in Conns :
        turn[c].tool_result # NoResult
            => ("result" \in DOMAIN turn[c].tool_result)
                  # ("error" \in DOMAIN turn[c].tool_result)

\* C16 witness: a provider answered tools/call with a non-200 status and call_tool
\* returned an error value
HttpErrorMapped ==
    \E c \in Conns :
        /\ "status_code" \in DOMAIN turn[c].tool_result
        /\ "error" \in DOMAIN turn[c].tool_result
        /\ "result" \notin DOMAIN turn[c].tool_result

\* C20: a connection that is open without a valid token reads no provider of any
\* user for discovery and sends no tools/list or tools/call request
NoTokenNoProviders ==
    \A c \in Conns :
        (sess[c].state = "open" /\ verify_token(sess[c].token) = None)
            => /\ turn[c].servers = <<>>
               /\ turn[c].requests = <<>>

\* the step ends conversation k: an end_conversation frame was handled or the
\* REST end route answered
EndStep(k) ==
    \/ \E c \in Conns :
        /\ nread'[c] = nread[c] + 1
        /\ turn'[c].kind = "end"
        /\ turn'[c].conv = k
    \/ nread' = nread /\ http' = http

\* the step answers a reconnect request on conversation k
ReconnectStep(k) ==
    /\ http'.n = http.n + 1
    /\ http'.conversation_id = k
    /\ http'.was = "ended"

ReconnectReactivates ==
    (http.was = "ended" /\ http.status_code \notin {403, 404})
        => /\ http.status_code = 200
           /\ http.status = "active"
           /\ conversations[http.conversation_id].exists
           /\ http.messages = Cardinality(ConvMessageIds(messages, http.conversation_id))

\* C19: the connection that started a conversation created it active and is in
\* its connection list; once end has updated a conversation its end time is set
\* and the response of that end carries the status ended and the end time
StartAttachesEndReports ==
    \A c \in Conns :
        /\ (turn[c].kind = "start" /\ sess[c].state = "open")
            => /\ turn[c].data.status = "active"
               /\ InSeq(c, conversation_connections[turn[c].conv])
        /\ (turn[c].kind = "end" /\ turn[c].svc = "ok")
            => /\ conversations[turn[c].conv].ended_at # NullTime
               /\ turn[c].data.status = "ended"
               /\ turn[c].data.ended_at # NullTime

\* connection c is in one of the lists of the registry
Registered(c) ==
    \/ InSeq(c, active_connections)
    \/ \E u \in UserKeys : InSeq(c, user_connections[u])
    \/ \E k \in ConvIds : InSeq(c, conversation_connections[k])

\* C21: a connection that presented a token which is invalid or whose subject is
\* not the user of the path was rejected: it is in no list of the registry, none
\* of its frames was read and nothing was written to it
BadTokenRejected ==
    \A c \in Conns :
        (sess[c].token # None /\ verify_token(sess[c].token) # sess[c].user_id)
            => /\ sess[c].state = "rejected"
               /\ ~Registered(c)
               /\ nread[c] = 0
               /\ outbox[c] = <<>>
               /\ turn[c] = NoTurn

\* C21 witness: a valid token of bob presented on the path of alice was rejected
MismatchRejected ==
    \E c \in Conns :
        /\ sess[c].state = "rejected"
        /\ sess[c].user_id = "alice"
        /\ verify_token(sess[c].token) = "bob"

\* the frame written last to connection c
LastFrame(ob, c) == ob[c][Len(ob[c])]

\* C22: a step that answers a frame of connection c with success=false, for any
\* reason but an unreadable frame, leaves the connection open, registered and
\* waiting for its next frame, with every frame it sent answered
FailedFrameLeavesUsable ==
    [][\A c \in Conns :
        (/\ Len(outbox'[c]) > Len(outbox[c])
         /\ LastFrame(outbox', c).kind = "response"
         /\ ~LastFrame(outbox', c).success
         /\ turn'[c].kind # "bad_json")
            => /\ pc'[c] = "recv"
               /\ sess'[c].state = "open"
               /\ InSeq(c, active_connections')
               /\ LastFrame(outbox', c).n = nread'[c]
               /\ Len(SelectSeq(outbox'[c], LAMBDA f : f.kind = "response")) = nread'[c]]_vars

\* C22 witness: the first two frames of a connection failed and its third, a
\* send, was handled to a successful answer
ThirdFrameAfterFailures ==
    \E c \in Conns :
        /\ Len(Responses(c)) = 3
        /\ ~Responses(c)[1].success
        /\ ~Responses(c)[2].success
        /\ Responses(c)[3].success
        /\ Responses(c)[3].type = "send_message"

\* C23: a frame {action: "start_conversation", data: {title}} read on an
\* authenticated connection created a conversation and was answered by a
\* success frame with conversation_id or id among its top-level keys
ActionStartAnswered ==
    \A c \in Conns :
        (/\ turn[c].frame = [key |-> "action", name |-> "start_conversation"]
         /\ sess[c].token # None)
            => /\ LastFrame(outbox, c).success
               /\ turn[c].conv \in ConvIds
               /\ {"conversation_id", "id"} \cap WebSocketResponse # {}

\* C24: when the model elects a function with arguments that do not parse, no
\* tool is invoked and nothing is answered yet: the plain call is issued; when
\* that call is answered, the assistant message is persisted and the send succeeds
MalformedArgumentsHandled ==
    [][\A c \in Conns :
        /\ (/\ pc[c] = "model_fn"
            /\ turn'[c] # turn[c]
            /\ turn'[c].function_name # None
            /\ ~turn'[c].args_ok)
            => /\ pc'[c] = "model_plain"
               /\ turn'[c].tool_calls = 0
               /\ turn'[c].requests = turn[c].requests
               /\ turn'[c].tool_result = NoResult
               /\ turn'[c].calls[Len(turn'[c].calls)] = [kind |-> "plain", status |-> "pending"]
               /\ messages' = messages
               /\ outbox' = outbox
        /\ (/\ pc[c] = "model_plain"
            /\ ~turn[c].args_ok
            /\ turn'[c] # turn[c]
            /\ turn'[c].calls[Len(turn'[c].calls)].status = "ok")
            => /\ pc'[c] = "recv"
               /\ turn'[c].svc = "ok"
               /\ turn'[c].tool_calls = 0
               /\ Len(messages') = Len(messages) + 1
               /\ turn'[c].ai_message = Len(messages')
               /\ messages'[Len(messages')].role = "assistant"
               /\ messages'[Len(messages')].conversation_id = turn[c].conv
               /\ LastFrame(outbox', c).success]_vars

\* C24 witness: the model elected get_time with arguments that do not parse and
\* the send ended successfully without a tool invocation
MalformedArgumentsSendDone ==
    \E c \in Conns :
        /\ SendDone(c)
        /\ turn[c].function_name = "get_time"
        /\ ~turn[c].args_ok
        /\ turn[c].svc = "ok"
        /\ turn[c].tool_calls = 0
        /\ turn[c].ai_message # 0

\* C25: whatever is started, sent, ended or reconnected to, every row of the
\* messages table stays at its place with its conversation, role and content;
\* rows are only added after the last one
MessagesAppendOnly ==
    [][/\ Len(messages') >= Len(messages)
       /\ \A i \in 1 .. Len(messages) :
            /\ messages'[i].conversation_id = messages[i].conversation_id
            /\ messages'[i].role = messages[i].role
            /\ messages'[i].content = messages[i].content
            /\ messages'[i].timestamp = messages[i].timestamp]_vars

\* C25 witness: conversation 1 received a turn, was ended and was reconnected
\* to; its two earlier rows are followed by the two rows of the turn
RowsKeptThroughCycle ==
    /\ Len(messages) = 4
    /\ \A i \in 1 .. 4 : messages[i].conversation_id = 1
    /\ messages[3].role = "user"
    /\ messages[4].role = "assistant"
    /\ conversations[1].ended_at # NullTime
    /\ http.conversation_id = 1
    /\ http.status = "active"

RECURSIVE Ascending(_, _)
\* the numbers of ids from the smallest to the largest, starting at k
Ascending(ids, k) ==
    IF \A i \in ids : i < k THEN <<>>
    ELSE (IF k \in ids THEN <<k>> ELSE <<>>) \o Ascending(ids, k + 1)

\* the limit rows of a conversation that were created last, oldest first
LastCreated(conversation_id, limit) ==
    LET all == Ascending(ConvMessageIds(messages, conversation_id), 1)
    IN SubSeq(all, Len(all) - Min(Len(all), limit) + 1, Len(all))

\* C26: whatever get_recent_messages returns for a conversation and a limit is
\* the list of the limit rows created last, in the order they were created
RecentMessagesInCreationOrder ==
    \A k \in ConvIds : \A limit \in 1 .. MaxRecent :
        get_recent_messages(messages, k, limit) = {LastCreated(k, limit)}

RECURSIVE Sum(_)
Sum(s) == IF s = <<>> THEN 0 ELSE Head(s) + Sum(Tail(s))

\* an update of the counters was lost
LostUpdate ==
    /\ analytics.metrics.message_count < Len(analytics.message_metrics)
    /\ analytics.metrics.total_tokens < Sum(analytics.message_metrics)

\* C27: a tracking request writes the counters it read plus its own message,
\* whatever was committed since it read them, and the counters never exceed what
\* was tracked; as long as one worker took every request they are exact
CountersReadThenWritten ==
    [][/\ \A w \in Workers :
            (analytics.workers[w].pc = "read" /\ analytics'.workers[w].pc = "idle")
                => /\ analytics'.metrics.message_count =
                          analytics.workers[w].current_message_count + 1
                   /\ analytics'.metrics.total_tokens =
                          analytics.workers[w].current_total_tokens
                              + analytics.workers[w].token_count
                   /\ Len(analytics'.message_metrics) = Len(analytics.message_metrics) + 1
       /\ analytics'.metrics.message_count <= Len(analytics'.message_metrics)
       /\ analytics'.metrics.total_tokens <= Sum(analytics'.message_metrics)
       /\ (/\ Cardinality(analytics'.handled) <= 1
           /\ \A w \in Workers : analytics'.workers[w].pc = "idle")
            => /\ analytics'.metrics.message_count = Len(analytics'.message_metrics)
               /\ analytics'.metrics.total_tokens = Sum(analytics'.message_metrics)]_vars

\* C27 witness: two requests were tracked at two workers, both are committed and
\* the counters hold only one of them
TwoTrackedOneCounted ==
    /\ LostUpdate
    /\ Len(analytics.message_metrics) = 2
    /\ analytics.metrics.message_count = 1
    /\ \A w \in Workers : analytics.workers[w].pc = "idle"

\* the step in which connection c's send is answered as successful
SendSucceeds(c) ==
    /\ turn[c].kind = "send"
    /\ pc[c] # "recv"
    /\ pc'[c] = "recv"
    /\ turn'[c].svc = "ok"
    /\ LastFrame(outbox', c).success

\* C28: the step that answers a send as successful writes, to every session in
\* the conversation's list at that step, one message_broadcast frame carrying the
\* ids of the user row and of the assistant row of that turn, and to no other
\* session
BroadcastReachesMembers ==
    [][\A c \in Conns :
        SendSucceeds(c)
            => /\ messages'[turn'[c].user_message].role = "user"
               /\ messages'[turn'[c].ai_message].role = "assistant"
               /\ messages'[turn'[c].user_message].conversation_id = turn[c].conv
               /\ messages'[turn'[c].ai_message].conversation_id = turn[c].conv
               /\ \A d \in Conns :
                    InSeq(d, conversation_connections[turn[c].conv])
                        => /\ Len(outbox'[d]) > Len(outbox[d])
                           /\ outbox'[d][Len(outbox[d]) + 1] =
                                  BroadcastFrame(turn'[c].user_message, turn'[c].ai_message)
               /\ \A d \in Conns \ {c} :
                    ~InSeq(d, conversation_connections[turn[c].conv])
                        => outbox'[d] = outbox[d]]_vars

\* C28 witness: a session sent successfully to a conversation another session
\* had started, and the last frame of that other session is the broadcast of the
\* turn
BroadcastToOtherSession ==
    \E c \in Conns, d \in Conns :
        /\ c # d
        /\ SendDone(c)
        /\ turn[c].svc = "ok"
        /\ LastFrame(outbox, c).success
        /\ InSeq(d, conversation_connections[turn[c].conv])
        /\ outbox[d] # <<>>
        /\ LastFrame(outbox, d) = BroadcastFrame(turn[c].user_message, turn[c].ai_message)

\* the rows of conversation k, oldest first
ConversationRows(k) == SelectSeq(messages, LAMBDA m : m.conversation_id = k)

\* the frames of connection c that wrote a user row to conversation k
SentOn(c, k) ==
    {n \in 1 .. nread[c] :
        \E i \in 1 .. Len(messages) :
            /\ messages[i].conversation_id = k
            /\ messages[i].role = "user"
            /\ messages[i].conn = c
            /\ messages[i].n = n}

\* frame n of connection c was answered as a successful send
Succeeded(c, n) ==
    \E i \in 1 .. Len(outbox[c]) :
        /\ outbox[c][i].kind = "response"
        /\ outbox[c][i].n = n
        /\ outbox[c][i].type = "send_message"
        /\ outbox[c][i].success

\* conversation k has no system row, only connection c wrote to it and every
\* send of c to it was answered as successful
OnlySuccessfulSends(c, k) ==
    /\ get_conversation(k).exists
    /\ \A i \in 1 .. Len(messages) :
            messages[i].conversation_id = k
                => messages[i].role # "system" /\ messages[i].conn = c
    /\ \A n \in SentOn(c, k) : Succeeded(c, n)

\* C29: a conversation without a system row to which one connection has sent n
\* frames, one after another and all answered as successful, holds exactly 2n
\* rows: for each send its user row followed by its assistant row
TwoRowsPerSend ==
    \A c \in Conns, k \in ConvIds :
        OnlySuccessfulSends(c, k)
            => LET rows == ConversationRows(k)
               IN /\ Len(rows) = 2 * Cardinality(SentOn(c, k))
                  /\ \A j \in 1 .. Len(rows) :
                        rows[j].role = IF j % 2 = 1 THEN "user" ELSE "assistant"
                  /\ \A j \in 1 .. Len(rows) :
                        j % 2 = 0 => rows[j].n = rows[j - 1].n

\* C29 witness: two sends of one connection to a conversation without a system
\* row were answered as successful
TwoSendsFourRows ==
    \E c \in Conns, k \in ConvIds :
        /\ OnlySuccessfulSends(c, k)
        /\ Cardinality(SentOn(c, k)) = 2
        /\ Len(ConversationRows(k)) = 4

\* the entries of list s that are not connection c
Others(s, c) == SelectSeq(s, LAMBDA x : x # c)

\* C30: the step in which a session leaves the registry changes no entry of any
\* other session, of the same user or not, in the active list, in the lists of
\* the user index or in the lists of the conversations
DisconnectLeavesOthers ==
    [][\A c \in Conns :
        (sess[c].state = "open" /\ sess'[c].state # "open")
            => /\ Others(active_connections', c) = Others(active_connections, c)
               /\ \A u \in UserKeys :
                    Others(user_connections'[u], c) = Others(user_connections[u], c)
               /\ \A k \in ConvIds :
                    Others(conversation_connections'[k], c)
                        = Others(conversation_connections[k], c)]_vars

\* C30 witness: two sessions of one user were registered together (one received
\* the broadcast of the other's turn); the sender has disconnected and the other
\* is still in the active list, in the user's list and in its conversation's list
OtherSessionStaysRegistered ==
    \E c \in Conns, d \in Conns :
        /\ c # d
        /\ sess[c].state = "disconnected"
        /\ sess[d].state = "open"
        /\ sess[c].user_id # None
        /\ sess[c].user_id = sess[d].user_id
        /\ turn[c].kind = "send"
        /\ turn[c].svc = "ok"
        /\ \E i \in 1 .. Len(outbox[d]) :
                outbox[d][i] = BroadcastFrame(turn[c].user_message, turn[c].ai_message)
        /\ InSeq(d, active_connections)
        /\ InSeq(d, user_connections[sess[d].user_id])
        /\ InSeq(d, conversation_connections[turn[c].conv])
        /\ ~InSeq(c, active_connections)
        /\ ~InSeq(c, user_connections[sess[c].user_id])

\* C31: a connection whose handle_connection has returned, by whichever exit, is
\* in none of the lists of the registry
ReturnedSessionUnregistered ==
    \A c \in Conns : pc[c] = "done" => ~Registered(c)

\* C32: a connection that is the only one to have sent frames has been written
\* exactly one frame for each frame it sent whose handler has returned
OneFrameOutPerFrameIn ==
    \A c \in Conns :
        (/\ \A d \in Conns \ {c} : nread[d] = 0
         /\ pc[c] \in {"recv", "done"})
            => Len(outbox[c]) = nread[c]

\* C33: a send frame that was answered as failed has left no row in the messages
\* table
FailedSendLeavesNoRow ==
    \A c \in Conns :
        (SendDone(c) /\ turn[c].svc = "fail")
            => \A i \in 1 .. Len(messages) :
                    ~(messages[i].conn = c /\ messages[i].n = turn[c].n)

\* the identity of connection c, as the user name of its endpoint or as the id of
\* that user's row, is the owner of conversation k
Owns(c, k) ==
    get_conversation(k).user_id \in {sess[c].user_id, ActualUserId(sess[c].user_id)}

\* C34: every user or assistant row was written by a send frame of a session that
\* owns the row's conversation, and the last end frame a session was answered as
\* successful was for a conversation it owns
OnlyOwnerModifies ==
    /\ \A i \in 1 .. Len(messages) :
            (messages[i].conn \in Conns /\ messages[i].role \in {"user", "assistant"})
                => Owns(messages[i].conn, messages[i].conversation_id)
    /\ \A c \in Conns :
            (turn[c].kind = "end" /\ turn[c].svc = "ok") => Owns(c, turn[c].conv)

\* C35: every step that appends a row to the messages table appends it to a
\* conversation whose status is active when the step is taken
RowsOnlyWhileActive ==
    [][\A i \in 1 .. Len(messages') :
        i > Len(messages)
            => get_conversation(messages'[i].conversation_id).status = "active"]_vars

\* a conversation has an end time exactly when its status is ended
EndTimeIffEnded ==
    \A k \in ConvIds :
        get_conversation(k).exists
            => (get_conversation(k).ended_at # NullTime <=> get_conversation(k).status = "ended")

\* C36: every step leaves each conversation with an end time exactly when its
\* status is ended, and a reconnect request that passed the access checks for an
\* ended conversation leaves it active without an end time
EndTimeFollowsStatus ==
    [][/\ EndTimeIffEnded'
       /\ (/\ http'.n = http.n + 1
           /\ http'.was = "ended"
           /\ http'.status_code \notin {403, 404})
            => /\ conversations'[http'.conversation_id].status = "active"
               /\ conversations'[http'.conversation_id].ended_at = NullTime]_vars

\* C37: a send frame whose user row and assistant row were both persisted was
\* answered with success=true
PersistedSendAnswersSuccess ==
    \A c \in Conns :
        (/\ SendDone(c)
         /\ turn[c].user_message # 0
         /\ turn[c].ai_message # 0)
            => Succeeded(c, turn[c].n)

\* C38: while the model is asked with a function schema, the schema holds no two
\* functions of the same name, and every tool of every provider whose listing was
\* used has a function name that tool_map routes to that provider
FunctionsDistinctAndRouted ==
    \A c \in Conns :
        pc[c] = "model_fn"
            => /\ \A i, j \in 1 .. Len(turn[c].openai_functions) :
                    i # j => turn[c].openai_functions[i] # turn[c].openai_functions[j]
               /\ \A s \in turn[c].listed :
                    \A i \in 1 .. Len(ServerTools(s)) :
                        \E name \in DOMAIN turn[c].tool_map :
                            /\ name = ServerTools(s)[i]
                            /\ turn[c].tool_map[name] = s

\* C39: after every step each conversation's list holds at most one session,
\* and a session enters the list of a conversation only in the step that handles
\* its own start frame and creates that conversation
MemberOnlyByOwnStart ==
    [][\A k \in ConvIds :
        /\ Len(conversation_connections'[k]) <= 1
        /\ \A c \in Conns :
            (InSeq(c, conversation_connections'[k]) /\ ~InSeq(c, conversation_connections[k]))
                => /\ nread'[c] = nread[c] + 1
                   /\ turn'[c].kind = "start"
                   /\ turn'[c].conv = k
                   /\ ~get_conversation(k).exists
                   /\ conversations'[k].exists]_vars

\* C39 witness: a session accepted at the endpoint of conversation 1 has sent to
\* it successfully and is not in its list, while another conversation's list
\* holds the one session that started it
EndpointSessionNotAttached ==
    \E c \in Conns, d \in Conns, k \in ConvIds :
        /\ sess[c].state = "open"
        /\ sess[c].user_id = get_conversation(1).user_id
        /\ sess[c].user_id \notin Usernames \cup {None}
        /\ SendDone(c)
        /\ turn[c].svc = "ok"
        /\ turn[c].conv = 1
        /\ conversation_connections[1] = <<>>
        /\ k # 1
        /\ conversation_connections[k] = <<d>>

\* ---------------------------------------------------------------- Next
\* the session loops of all connections over a database without tool providers
Next ==
    \/ Tick
    \/ \E c \in Conns : ConnectAnonymous(c)
    \/ \E c \in Conns : ConnectUser(c)
    \/ \E c \in Conns : ConnectUserNoToken(c)
    \/ \E c \in Conns : ConnectRejected(c)
    \/ \E c \in Conns : RecvDisconnect(c)
    \/ \E c \in Conns : RecvBadJson(c)
    \/ \E c \in Conns : RecvInvalid(c)
    \/ \E c \in Conns : RecvStart(c)
    \/ \E c \in Conns : RecvEnd(c)
    \/ \E c \in Conns : RecvSend(c)
    \/ \E c \in Conns : ModelPlain(c)

Spec == Init /\ [][Next]_vars

\* turns with tool augmentation on two connections; every row is written within
\* one tick of the database clock
NextTurns ==
    \/ \E c \in Conns : ConnectUser(c)
    \/ \E c \in Conns : RecvEnd(c)
    \/ \E c \in Conns : RecvSend(c)
    \/ \E c \in Conns : Discover(c)
    \/ \E c \in Conns : ModelFn(c)
    \/ \E c \in Conns : ToolReply(c)
    \/ \E c \in Conns : ModelFinal(c)
    \/ \E c \in Conns : ModelPlain(c)

SpecTurns == InitTurns /\ [][NextTurns]_vars

\* one client's turns while its providers are updated and deleted and its
\* conversation is ended over REST
NextTools ==
    \/ Tick
    \/ \E s \in ServerIds, active \in BOOLEAN : update_mcp_server(s, active)
    \/ \E s \in ServerIds : delete_mcp_server(s)
    \/ \E k \in ConvIds : end_user_conversation(k)
    \/ \E c \in Conns : ConnectUser(c)
    \/ \E c \in Conns : RecvSend(c)
    \/ \E c \in Conns : Discover(c)
    \/ \E c \in Conns : ModelFn(c)
    \/ \E c \in Conns : ToolReply(c)
    \/ \E c \in Conns : ModelFinal(c)
    \/ \E c \in Conns : ModelPlain(c)

SpecTools == InitTools /\ [][NextTools]_vars

\* conversations are started, used, ended and reconnected to by one client and
\* by requests to the REST routes
NextLife ==
    \/ \E c \in Conns : ConnectAnonymous(c)
    \/ \E c \in Conns : RecvStart(c)
    \/ \E c \in Conns : RecvEnd(c)
    \/ \E c \in Conns : RecvSend(c)
    \/ \E c \in Conns : ModelPlain(c)
    \/ \E k \in ConvIds : end_user_conversation(k)
    \/ \E current_user \in CurrentUsers, k \in ConvIds :
            reconnect_to_conversation(UserDbId("alice"), current_user, k)
    \/ \E current_user \in CurrentUsers, k \in ConvIds :
            web_reconnect_to_conversation(UserDbId("alice"), current_user, k)

SpecLife == InitLife /\ [][NextLife]_vars

\* message-tracking requests for one conversation arrive at the workers of the
\* analytics service
NextAnalytics ==
    \/ \E w \in Workers : TrackMessageRead(w)
    \/ \E w \in Workers : TrackMessageCommit(w)

SpecAnalytics == InitAnalytics /\ [][NextAnalytics]_vars

\* one client sends frames that succeed and frames that fail
NextFrames ==
    \/ \E c \in Conns : ConnectAnonymous(c)
    \/ \E c \in Conns : ConnectUser(c)
    \/ \E c \in Conns : RecvInvalid(c)
    \/ \E c \in Conns : RecvActionFrame(c)
    \/ \E c \in Conns : RecvStart(c)
    \/ \E c \in Conns : RecvEnd(c)
    \/ \E c \in Conns : RecvSend(c)
    \/ \E c \in Conns : ModelPlain(c)

SpecFrames == InitFrames /\ [][NextFrames]_vars

\* two sessions, of one user or of two, start conversations and send to them
\* while connections are lost
NextSessions ==
    \/ \E c \in Conns : ConnectUser(c)
    \/ \E c \in Conns : RecvDisconnect(c)
    \/ \E c \in Conns : RecvStart(c)
    \/ \E c \in Conns : RecvSend(c)
    \/ \E c \in Conns : ModelPlain(c)

SpecSessions == InitSessions /\ [][NextSessions]_vars

\* two sessions, connected to the user endpoint or to the endpoint of a
\* conversation, start conversations, send to them and end them
NextAttach ==
    \/ \E c \in Conns : ConnectConversation(c)
    \/ \E c \in Conns : ConnectUser(c)
    \/ \E c \in Conns : RecvStart(c)
    \/ \E c \in Conns : RecvSend(c)
    \/ \E c \in Conns : ModelPlain(c)
    \/ \E c \in Conns : RecvEnd(c)

SpecAttach == InitAttach /\ [][NextAttach]_vars

\* two clients start and end conversations while connections are lost
NextEnds ==
    \/ \E c \in Conns : ConnectAnonymous(c)
    \/ \E c \in Conns : RecvDisconnect(c)
    \/ \E c \in Conns : RecvBadJson(c)
    \/ \E c \in Conns : RecvStart(c)
    \/ \E c \in Conns : RecvEnd(c)

SpecEnds == InitEnds /\ [][NextEnds]_vars

\* one client, connected with or without a token, while providers are
\* activated and deactivated
NextCreds ==
    \/ \E s \in ServerIds, active \in BOOLEAN : update_mcp_server(s, active)
    \/ \E c \in Conns : ConnectAnonymous(c)
    \/ \E c \in Conns : ConnectUser(c)
    \/ \E c \in Conns : ConnectUserNoToken(c)
    \/ \E c \in Conns : ConnectRejected(c)
    \/ \E c \in Conns : RecvSend(c)
    \/ \E c \in Conns : Discover(c)
    \/ \E c \in Conns : ModelFn(c)
    \/ \E c \in Conns : ToolReply(c)
    \/ \E c \in Conns : ModelFinal(c)
    \/ \E c \in Conns : ModelPlain(c)

SpecCreds == InitCreds /\ [][NextCreds]_vars

\* turns on a conversation with a long history
NextHistory ==
    \/ Tick
    \/ \E c \in Conns : ConnectUser(c)
    \/ \E c \in Conns : ConnectAnonymous(c)
    \/ \E c \in Conns : RecvSend(c)
    \/ \E c \in Conns : RecvEnd(c)
    \/ \E c \in Conns : ModelPlain(c)

SpecHistory == InitHistory /\ [][NextHistory]_vars

====
